---- MODULE Spec2Model ----
(***************************************************************************)
(* Read-only SQL gateway of the F1 MCP server: the query validator          *)
(* (utils/validators.py), the statement execution adapter                   *)
(* (services/databricks_client.py), the result formatters                   *)
(* (utils/formatters.py) and the tools that submit SQL                      *)
(* (tools/sql_tools.py, tools/schema_tools.py, tools/visualization_tools.py)*)
(*                                                                          *)
(* Text is modelled as a sequence of tokens.  A token is a run of           *)
(* characters whose first and last character have the same class: word      *)
(* characters [A-Za-z0-9_], whitespace, or other.  The text of a sequence    *)
(* is the concatenation of its tokens, so two adjacent word tokens form one  *)
(* longer word (<<"DROP","x">> is the text "DROPx").  No token of the        *)
(* alphabets below contains a regex literal of the validator except as the   *)
(* whole token.                                                              *)
(***************************************************************************)
EXTENDS Integers, Sequences, FiniteSets, TLC

VARIABLES
    v_op,          \* validator run: which operation is applied
    v_query,       \* validator run: the query argument
    v_table,       \* validator run: the table_name / identifier argument
    v_catalogs,    \* SQLValidator.allowed_catalogs
    v_done,        \* validator run: the operation has returned
    v_result,      \* validator run: the ValidationResult returned
    v_text,        \* validator run: the text sanitize_identifier returned
    settings,      \* Settings (query_timeout_seconds, max_result_rows)
    pc,            \* position of the tool invocation
    tool,          \* name of the tool being invoked
    args,          \* its arguments
    events,        \* calls made so far by the current invocation, in order
    request,       \* the execute_statement request in flight
    remote,        \* the remote statement (state, error, schema, data)
    elapsed,       \* the bounded wait has elapsed
    result,        \* what execute_query returned
    response,      \* what the tool returned
    calls,         \* number of invocations started
    client,        \* the process-wide client: "none", "created", "connected"
    submissions,   \* execute_statement calls made by the process so far
    f_result,          \* formatter run: the result argument
    f_max_display_rows,\* formatter run: max_display_rows of format_query_result
    f_max_rows,        \* formatter run: max_rows of format_as_markdown_table
    f_text,            \* formatter run: lines format_query_result returned
    f_markdown,        \* formatter run: lines format_as_markdown_table returned
    f_numeric,         \* formatter run: what extract_numeric_columns returned
    s_validator,       \* accessors: validators._validator (0 is None)
    s_client_instance, \* accessors: databricks_client._client_instance
    s_client,          \* accessors: self._client of each DatabricksClient
    s_made,            \* accessors: instances constructed, per class
    s_writes,          \* accessors: <<variable, instance, invocation>> writes
    s_pc,              \* accessors: position of each concurrent invocation
    s_got              \* accessors: what each invocation's calls returned

vvars == <<v_op, v_query, v_table, v_catalogs, v_done, v_result, v_text>>
gvars == <<settings, pc, tool, args, events, request, remote, elapsed,
           result, response, calls, client, submissions>>
fvars == <<f_result, f_max_display_rows, f_max_rows, f_text, f_markdown,
           f_numeric>>
svars == <<s_validator, s_client_instance, s_client, s_made, s_writes, s_pc,
           s_got>>
vars == <<v_op, v_query, v_table, v_catalogs, v_done, v_result, v_text,
          settings, pc, tool, args, events, request, remote, elapsed,
          result, response, calls, client, submissions,
          f_result, f_max_display_rows, f_max_rows, f_text, f_markdown,
          f_numeric,
          s_validator, s_client_instance, s_client, s_made, s_writes, s_pc,
          s_got>>

(***************************************************************************)
(* Bounds                                                                   *)
(***************************************************************************)
MaxFrags == 3

MaxNameLen == 3

MaxCalls == 2

\* longest row list given to a formatter
MaxRowsLen == 2

(***************************************************************************)
(* Tokens                                                                   *)
(***************************************************************************)
SpaceTokens == {" ", "\n"}

PunctTokens == {";", "--", "'", "=", "(", ")", ",", "*", "%", "-", ">",
                "('%", "%')"}

\* character class of the first and last character of a token
Kind(t) ==
    IF t \in SpaceTokens THEN "space"
    ELSE IF t \in PunctTokens THEN "punct"
    ELSE "word"

IsSpace(t) == Kind(t) = "space"

IsWord(t) == Kind(t) = "word"

\* str.upper() / re.IGNORECASE folding of a token.  The tokens of the query
\* alphabets that hold lower-case letters are listed; every other token of
\* those alphabets is upper-case or caseless.  The fixed identifiers of the
\* statement templates stand for their own upper-case form: none of them
\* spells a keyword or a regex literal in any letter case.
Upper(t) ==
    CASE t = "drop" -> "DROP"
      [] t = "Delete" -> "DELETE"
      [] t = "exec" -> "EXEC"
      [] t = "with" -> "WITH"
      [] t = "select" -> "SELECT"
      [] t = "union" -> "UNION"
      [] t = "or" -> "OR"
      [] t = "x" -> "X"
      [] OTHER -> t

\* Optional[...] values
None == [some |-> FALSE, v |-> <<>>]

Some(x) == [some |-> TRUE, v |-> x]

(***************************************************************************)
(* utils/validators.py                                                      *)
(***************************************************************************)
BLOCKED_KEYWORDS ==
    <<"DROP", "DELETE", "TRUNCATE", "ALTER", "CREATE", "INSERT",
      "UPDATE", "MERGE", "GRANT", "REVOKE", "EXECUTE", "EXEC">>

Range(s) == {s[i] : i \in 1..Len(s)}

\* BlockedAt without re.IGNORECASE
BlockedAt_CaseSensitive(q, i) ==
    /\ q[i] \in Range(BLOCKED_KEYWORDS)
    /\ (i = 1 \/ ~IsWord(q[i - 1]))
    /\ (i = Len(q) \/ ~IsWord(q[i + 1]))

\* \b(K1|...|Kn)\b with re.IGNORECASE matches the token at position i
BlockedAt(q, i) ==
    /\ Upper(q[i]) \in Range(BLOCKED_KEYWORDS)
    /\ (i = 1 \/ ~IsWord(q[i - 1]))
    /\ (i = Len(q) \/ ~IsWord(q[i + 1]))

\* BLOCKED_PATTERN.search(query): position of the leftmost match, 0 if none
BLOCKED_PATTERN(q) ==
    IF \E i \in 1..Len(q) : BlockedAt(q, i)
    THEN CHOOSE i \in 1..Len(q) :
            /\ BlockedAt(q, i)
            /\ \A j \in 1..(i - 1) : ~BlockedAt(q, j)
    ELSE 0

\* regex elements: a literal token (compared case-insensitively), \s*, \s+
Lit(s) == [kind |-> "lit", s |-> s]

WsStar == [kind |-> "ws*", s |-> ""]

WsPlus == [kind |-> "ws+", s |-> ""]

INJECTION_PATTERNS ==
    << <<Lit(";"), WsStar, Lit("--")>>,
       <<Lit("'"), WsStar, Lit("OR"), WsPlus, Lit("'"), Lit("1"), Lit("'"),
         WsStar, Lit("="), WsStar, Lit("'"), Lit("1")>>,
       <<Lit("'"), WsStar, Lit("OR"), WsPlus, Lit("1"), WsStar, Lit("="),
         WsStar, Lit("1")>>,
       <<Lit("UNION"), WsPlus, Lit("SELECT")>>,
       <<Lit("INTO"), WsPlus, Lit("OUTFILE")>>,
       <<Lit("LOAD_FILE")>> >>

RECURSIVE MatchAt(_, _, _, _)
\* the elements k.. of pattern p match the text of q starting at token i
MatchAt(q, i, p, k) ==
    IF k > Len(p) THEN TRUE
    ELSE IF p[k].kind = "lit"
    THEN /\ i <= Len(q)
         /\ Upper(q[i]) = p[k].s
         /\ MatchAt(q, i + 1, p, k + 1)
    ELSE \E n \in (IF p[k].kind = "ws+" THEN 1 ELSE 0)..(Len(q) - i + 1) :
            /\ \A j \in i..(i + n - 1) : IsSpace(q[j])
            /\ MatchAt(q, i + n, p, k + 1)

\* pattern.search(query)
PatternSearch(p, q) == \E i \in 1..Len(q) : MatchAt(q, i, p, 1)

RECURSIVE LStrip(_)
LStrip(q) ==
    IF q # <<>> /\ IsSpace(Head(q)) THEN LStrip(Tail(q)) ELSE q

RECURSIVE RStrip(_)
RStrip(q) ==
    IF q # <<>> /\ IsSpace(q[Len(q)])
    THEN RStrip(SubSeq(q, 1, Len(q) - 1))
    ELSE q

\* str.strip()
Strip(q) == RStrip(LStrip(q))

\* allowed_starts without WITH
allowed_starts_NoWith == <<"SELECT", "SHOW", "DESCRIBE", "DESC">>

allowed_starts == <<"SELECT", "WITH", "SHOW", "DESCRIBE", "DESC">>

\* str.startswith on an upper-cased text: the text begins with the first
\* token, and within the alphabet a token begins with `start` only if it
\* is `start` or is DESCRIBE (which begins with DESC)
StartsWith(q, start) ==
    /\ q # <<>>
    /\ \/ Upper(q[1]) = start
       \/ Upper(q[1]) = "DESCRIBE" /\ start = "DESC"

\* ValidationResult that drops the message
ValidationResult_NoMessage(ok, msg) == [is_valid |-> ok, error_message |-> None]

\* ValidationResult; the message is kept as the sequence of its parts
ValidationResult(ok, msg) == [is_valid |-> ok, error_message |-> msg]

MsgEmpty == <<"Query cannot be empty.">>

MsgBlocked(k) ==
    <<"Query contains blocked keyword: ", k, ". ",
      "Only SELECT queries are allowed.">>

MsgDangerous == <<"Query contains potentially dangerous pattern.">>

MsgStart ==
    <<"Query must start with SELECT, WITH, SHOW, or DESCRIBE. ",
      "Only read operations are allowed.">>

\* validate_query with the allowed-prefix check moved before the blocklist
validate_query_PrefixFirst(q) ==
    IF q = <<>> \/ Strip(q) = <<>>
    THEN ValidationResult(FALSE, Some(MsgEmpty))
    ELSE IF ~\E n \in 1..Len(allowed_starts) :
                StartsWith(Strip(q), allowed_starts[n])
    THEN ValidationResult(FALSE, Some(MsgStart))
    ELSE IF BLOCKED_PATTERN(q) # 0
    THEN ValidationResult(FALSE, Some(MsgBlocked(Upper(q[BLOCKED_PATTERN(q)]))))
    ELSE IF \E n \in 1..Len(INJECTION_PATTERNS) :
                PatternSearch(INJECTION_PATTERNS[n], q)
    THEN ValidationResult(FALSE, Some(MsgDangerous))
    ELSE ValidationResult(TRUE, None)

\* validate_query without the injection-pattern check
validate_query_NoInjectionCheck(q) ==
    IF q = <<>> \/ Strip(q) = <<>>
    THEN ValidationResult(FALSE, Some(MsgEmpty))
    ELSE IF BLOCKED_PATTERN(q) # 0
    THEN ValidationResult(FALSE, Some(MsgBlocked(Upper(q[BLOCKED_PATTERN(q)]))))
    ELSE IF ~\E n \in 1..Len(allowed_starts) :
                StartsWith(Strip(q), allowed_starts[n])
    THEN ValidationResult(FALSE, Some(MsgStart))
    ELSE ValidationResult(TRUE, None)

validate_query(q) ==
    IF q = <<>> \/ Strip(q) = <<>>
    THEN ValidationResult(FALSE, Some(MsgEmpty))
    ELSE IF BLOCKED_PATTERN(q) # 0
    THEN ValidationResult(FALSE, Some(MsgBlocked(Upper(q[BLOCKED_PATTERN(q)]))))
    ELSE IF \E n \in 1..Len(INJECTION_PATTERNS) :
                PatternSearch(INJECTION_PATTERNS[n], q)
    THEN ValidationResult(FALSE, Some(MsgDangerous))
    ELSE IF ~\E n \in 1..Len(allowed_starts) :
                StartsWith(Strip(q), allowed_starts[n])
    THEN ValidationResult(FALSE, Some(MsgStart))
    ELSE ValidationResult(TRUE, None)

\* [a-zA-Z0-9_.]
IsIdentChar(c) == IsWord(c) \/ c = "."

AllIdent(s) == \A i \in 1..Len(s) : IsIdentChar(s[i])

\* re.match(r"^[a-zA-Z0-9_.]+$", s): `$` matches at the end of the string
\* and also just before a line break that ends the string
MatchIdentRegex(s) ==
    \/ s # <<>> /\ AllIdent(s)
    \/ /\ Len(s) >= 2
       /\ s[Len(s)] = "\n"
       /\ AllIdent(SubSeq(s, 1, Len(s) - 1))

\* a substitution that leaves blanks in place
sanitize_identifier_KeepsBlanks(identifier) ==
    SelectSeq(identifier, LAMBDA c : IsIdentChar(c) \/ c = " ")

\* SQLValidator.sanitize_identifier: re.sub(r"[^a-zA-Z0-9_.]", "", identifier)
sanitize_identifier(identifier) == SelectSeq(identifier, IsIdentChar)

\* str.split(".")[0]
RECURSIVE FirstPart(_)
FirstPart(s) ==
    IF s = <<>> \/ Head(s) = "." THEN <<>>
    ELSE <<Head(s)>> \o FirstPart(Tail(s))

MsgTableEmpty == <<"Table name cannot be empty.">>

MsgTableChars ==
    <<"Table name contains invalid characters. ",
      "Only alphanumeric, underscore, and dot are allowed.">>

MsgCatalog(catalog) ==
    <<"Catalog '">> \o catalog \o <<"' is not in the allowed list.">>

validate_table_name(allowed_catalogs, table_name) ==
    IF table_name = <<>> \/ Strip(table_name) = <<>>
    THEN ValidationResult(FALSE, Some(MsgTableEmpty))
    ELSE IF ~MatchIdentRegex(table_name)
    THEN ValidationResult(FALSE, Some(MsgTableChars))
    ELSE IF /\ allowed_catalogs # <<>>
            /\ "." \in Range(table_name)
            /\ FirstPart(table_name) \notin Range(allowed_catalogs)
    THEN ValidationResult(FALSE, Some(MsgCatalog(FirstPart(table_name))))
    ELSE ValidationResult(TRUE, None)

(***************************************************************************)
(* The process-wide accessors                                               *)
(***************************************************************************)
\* tool invocations that run at the same time
MaxConcurrent == 2

\* what an invocation holds before its accessor calls return (0 is no
\* instance; the instances of a class are numbered from 1 as constructed)
NoInstances == [validator |-> 0, client_instance |-> 0, client |-> 0]

(***************************************************************************)
(* Inputs of the validator run                                              *)
(***************************************************************************)
Fragments ==
    { <<"SELECT">>, <<"with">>, <<"DESCRIBE">>, <<" ">>, <<"x">>, <<"_">>,
      <<"DROP">>, <<"drop">>, <<"Delete">>, <<"UPDATE">>, <<"exec">>,
      <<";">>, <<"--">>, <<"union">>, <<"LOAD_FILE">>,
      <<"INTO", " ", "OUTFILE">>,
      <<"'", " ", "OR", " ", "'", "1", "'", "=", "'", "1">>,
      <<"'", "or", " ", "1", " ", "=", "1">> }

RECURSIVE QueriesOf(_)
QueriesOf(n) ==
    IF n = 0 THEN {<<>>}
    ELSE QueriesOf(n - 1) \cup
         {q \o f : q \in QueriesOf(n - 1), f \in Fragments}

Queries == QueriesOf(MaxFrags)

NameChars == {"a", "1", "_", ".", ";", " ", "\n"}

RECURSIVE NamesOf(_)
NamesOf(n) ==
    IF n = 0 THEN {<<>>}
    ELSE NamesOf(n - 1) \cup
         {s \o <<c>> : s \in NamesOf(n - 1), c \in NameChars}

TableNames == NamesOf(MaxNameLen)

CatalogLists == { <<>>, << <<"a">> >>, << <<"a">>, <<"1", "_">> >> }

(***************************************************************************)
(* config.py                                                                *)
(***************************************************************************)
databricks_catalog == "workspace"

databricks_schema == "f1"

max_result_rows == 10000

TimeoutValues == {-3, 0, 4, 5, 6, 30, 49, 50, 51, 120}

\* Settings.get_full_table_name
get_full_table_name(table_name) ==
    IF "." \in Range(table_name) THEN table_name
    ELSE <<databricks_catalog, ".", databricks_schema, ".">> \o table_name

(***************************************************************************)
(* Text building                                                            *)
(***************************************************************************)
\* str(n) for an integer, as tokens
IntTokens(n) == IF n < 0 THEN <<"-", ToString(-n)>> ELSE <<ToString(n)>>

\* value.replace("'", "''")
RECURSIVE Escape(_)
Escape(t) ==
    IF t = <<>> THEN <<>>
    ELSE (IF Head(t) = "'" THEN <<"'", "'">> ELSE <<Head(t)>>)
         \o Escape(Tail(t))

\* sep.join(parts)
RECURSIVE Join(_, _)
Join(sep, parts) ==
    IF parts = <<>> THEN <<>>
    ELSE IF Len(parts) = 1 THEN parts[1]
    ELSE parts[1] \o sep \o Join(sep, Tail(parts))

\* Python truthiness of an Optional[str] argument
TruthyText(o) == o.some /\ o.v # <<>>

\* Python truthiness of an Optional[int] argument
TruthyInt(o) == o.some /\ o.v # 0

Min(a, b) == IF a < b THEN a ELSE b

Max(a, b) == IF a > b THEN a ELSE b

(***************************************************************************)
(* services/databricks_client.py                                            *)
(***************************************************************************)
NoRequest ==
    [sent |-> FALSE, statement |-> <<>>, wait_timeout |-> "",
     on_wait_timeout |-> "", row_limit |-> 0]

NoRemote ==
    [state |-> "NONE", error |-> None, manifest |-> None, data_array |-> None]

NoResult == [none |-> TRUE]

NoArgs == [none |-> TRUE]

\* wait_timeout without the lower clamp
wait_timeout_NoFloor(query_timeout_seconds) == Min(query_timeout_seconds, 50)

\* wait_timeout = max(min(query_timeout_seconds, 50), 5)
wait_timeout(query_timeout_seconds) == Max(Min(query_timeout_seconds, 50), 5)

\* the arguments execute_query passes to statement_execution.execute_statement
ExecuteStatementRequest(query, max_rows) ==
    [sent |-> TRUE,
     statement |-> query,
     wait_timeout |-> ToString(wait_timeout(settings.query_timeout_seconds)) \o "s",
     on_wait_timeout |-> "CONTINUE",
     row_limit |-> IF TruthyInt(max_rows)
                   THEN max_rows.v ELSE settings.max_result_rows]

\* dict(zip(columns, row_data)): zip stops at the shorter sequence, a
\* repeated column name keeps its last value
ZipDict(columns, row_data) ==
    LET m == Min(Len(columns), Len(row_data))
    IN [c \in {columns[j] : j \in 1..m} |->
            row_data[CHOOSE j \in 1..m :
                        /\ columns[j] = c
                        /\ \A k \in (j + 1)..m : columns[k] # c]]

\* the dictionary execute_query returns for the statement it received
QueryResult(statement) ==
    IF statement.state = "SUCCEEDED"
    THEN LET columns == IF statement.manifest.some
                        THEN statement.manifest.v ELSE <<>>
             data == IF statement.data_array.some
                     THEN statement.data_array.v ELSE <<>>
             rows == [i \in 1..Len(data) |-> ZipDict(columns, data[i])]
         IN [success |-> TRUE, columns |-> columns, rows |-> rows,
             row_count |-> Len(rows)]
    ELSE [success |-> FALSE,
          error |-> IF statement.error.some THEN statement.error.v
                    ELSE <<"Query did not succeed">>,
          state |-> "StatementState." \o statement.state]

\* a failure result that does not say what was raised
ExceptionResult_NoDescription(e) == [success |-> FALSE, error |-> <<>>]

\* the dictionary execute_query returns when an exception was raised
ExceptionResult(e) == [success |-> FALSE, error |-> e]

(***************************************************************************)
(* Statements built by the tools.  A run of fixed template text that        *)
(* begins and ends with a word character and holds no blocked keyword is     *)
(* one token; runs of template whitespace are one whitespace token.          *)
(***************************************************************************)
\* f"LOWER({column}) LIKE LOWER('%{safe}%')" with safe = value.replace("'", "''")
LikeCondition(column, value) ==
    <<"LOWER", "(", column, ")", " ", "LIKE", " ", "LOWER", "('%">>
    \o Escape(value) \o <<"%')">>

\* f"season = {int(season)}"
SeasonCondition(season) == <<"season", " ", "=", " ">> \o IntTokens(season)

\* the conditions list: one entry per truthy filter, in the order given
RECURSIVE Conditions(_)
Conditions(filters) ==
    IF filters = <<>> THEN <<>>
    ELSE (IF filters[1].kind = "like" /\ TruthyText(filters[1].value)
          THEN <<LikeCondition(filters[1].column, filters[1].value.v)>>
          ELSE IF filters[1].kind = "season" /\ TruthyInt(filters[1].value)
          THEN <<SeasonCondition(filters[1].value.v)>>
          ELSE <<>>)
         \o Conditions(Tail(filters))

LikeFilter(column, value) == [kind |-> "like", column |-> column, value |-> value]

SeasonFilter(value) == [kind |-> "season", column |-> "season", value |-> value]

\* where_clause = "WHERE " + " AND ".join(conditions) if conditions else ""
WhereClause(conditions) ==
    IF conditions = <<>> THEN <<>>
    ELSE <<"WHERE", " ">> \o Join(<<" ", "AND", " ">>, conditions)

DriverColumns ==
    "season, driverName, teamName, races_count, total_points, wins, podiums, dnf_count, avg_grid_position, avg_finish_position, final_champ_position"

ConstructorColumns ==
    "season, teamName, teamNationality, entries_count, team_total_points, wins, podiums, dnf_count, final_cons_position"

RaceColumns ==
    "season, round, raceName, circuitName, country, driverName, teamName, grid, race_finish_position, race_points, pit_stop_count, avg_pit_stop_ms, statusDescription"

PitColumns ==
    "season, raceName, driverName, teamName, pit_stop_count, avg_pit_stop_ms, total_pit_stop_ms, race_finish_position"

SchemaColumns ==
    "column_name, data_type, is_nullable, column_default, comment"

TableColumns == "table_name, table_type, comment"

driver_season_stats_query(driver_name, season, team_name, limit) ==
    <<"\n", "SELECT", " ", DriverColumns, "\n",
      "FROM", " ", "f1.f1_gold_driver_season_stats", "\n">>
    \o WhereClause(Conditions(<<LikeFilter("driverName", driver_name),
                                SeasonFilter(season),
                                LikeFilter("teamName", team_name)>>))
    \o <<"\n", "ORDER", " ", "BY", " ", "season", " ", "DESC", ",", " ",
         "total_points", " ", "DESC", "\n", "LIMIT", " ">>
    \o IntTokens(limit) \o <<"\n">>

constructor_season_stats_query(team_name, season, limit) ==
    <<"\n", "SELECT", " ", ConstructorColumns, "\n",
      "FROM", " ", "f1.f1_gold_constructor_season_stats", "\n">>
    \o WhereClause(Conditions(<<LikeFilter("teamName", team_name),
                                SeasonFilter(season)>>))
    \o <<"\n", "ORDER", " ", "BY", " ", "season", " ", "DESC", ",", " ",
         "team_total_points", " ", "DESC", "\n", "LIMIT", " ">>
    \o IntTokens(limit) \o <<"\n">>

race_results_query(race_name, season, driver_name, limit) ==
    <<"\n", "SELECT", " ", RaceColumns, "\n",
      "FROM", " ", "f1.f1_gold_race_driver_features", "\n">>
    \o WhereClause(Conditions(<<LikeFilter("raceName", race_name),
                                SeasonFilter(season),
                                LikeFilter("driverName", driver_name)>>))
    \o <<"\n", "ORDER", " ", "BY", " ", "season", " ", "DESC", ",", " ",
         "round", " ", "DESC", ",", " ", "race_finish_position", "\n",
         "LIMIT", " ">>
    \o IntTokens(limit) \o <<"\n">>

pit_stop_data_query(season, driver_name, team_name, limit) ==
    <<"\n", "SELECT", " ", PitColumns, "\n",
      "FROM", " ", "f1.f1_gold_race_driver_features", "\n">>
    \o WhereClause(Conditions(<<SeasonFilter(season),
                                LikeFilter("driverName", driver_name),
                                LikeFilter("teamName", team_name)>>))
    \o <<"\n", "AND", " ", "pit_stop_count", " ", ">", " ", "0", "\n",
         "ORDER", " ", "BY", " ", "season", " ", "DESC", ",", " ",
         "avg_pit_stop_ms", "\n", "LIMIT", " ">>
    \o IntTokens(limit) \o <<"\n">>

\* DatabricksClient.get_table_schema
table_schema_query(table_name) ==
    <<"\n", "SELECT", " ", SchemaColumns, "\n",
      "FROM", " ", databricks_catalog, ".", "information_schema.columns", "\n",
      "WHERE", " ", "table_schema", " ", "=", " ", "'", databricks_schema, "'",
      "\n", "AND", " ", "table_name", " ", "=", " ", "'">>
    \o table_name
    \o <<"'", "\n", "ORDER", " ", "BY", " ", "ordinal_position", "\n">>

\* DatabricksClient.get_table_sample
table_sample_query(table_name, limit) ==
    <<"SELECT", " ", "*", " ", "FROM", " ">>
    \o get_full_table_name(table_name)
    \o <<" ", "LIMIT", " ">> \o IntTokens(limit)

\* the layer_conditions of list_f1_tables
LayerConditions(include_bronze, include_silver, include_gold) ==
    (IF include_bronze
     THEN << <<"table_name", " ", "LIKE", " ", "'", "f1_bronze", "%", "'">> >>
     ELSE <<>>)
    \o (IF include_silver
        THEN << <<"table_name", " ", "LIKE", " ", "'", "f1_silver", "%", "'">> >>
        ELSE <<>>)
    \o (IF include_gold
        THEN << <<"table_name", " ", "LIKE", " ", "'", "f1_gold", "%", "'">> >>
        ELSE <<>>)

list_tables_query(layer_conditions) ==
    <<"\n", "SELECT", " ", TableColumns, "\n",
      "FROM", " ", databricks_catalog, ".", "information_schema.tables", "\n",
      "WHERE", " ", "table_schema", " ", "=", " ", "'", databricks_schema, "'",
      "\n", "AND", " ", "(">>
    \o Join(<<" ", "OR", " ">>, layer_conditions)
    \o <<")", "\n", "ORDER", " ", "BY", " ", "table_name", "\n">>

default_features ==
    << <<"grid">>, <<"race_finish_position">>, <<"race_points">>,
       <<"pit_stop_count">>, <<"avg_pit_stop_ms">>, <<"quali_best_position">> >>

correlation_query(features, season) ==
    <<"\n", "SELECT", " ">>
    \o Join(<<",", " ">>, features)
    \o <<"\n", "FROM", " ", "f1.f1_gold_race_driver_features", "\n",
         "WHERE", " ", "race_finish_position", " ", "IS", " ", "NOT", " ",
         "NULL", "\n">>
    \o (IF TruthyInt(season)
        THEN <<"AND", " ">> \o SeasonCondition(season.v) ELSE <<>>)
    \o <<"\n", "LIMIT", " ", "5000", "\n">>

(***************************************************************************)
(* Inputs of the tools and answers of the remote warehouse                  *)
(***************************************************************************)
ToolQueries ==
    { <<>>, <<" ">>,
      <<"SELECT", " ", "x">>,
      <<"with", " ", "x">>,
      <<"SELECT", " ", "drop">>,
      <<"UPDATE", " ", "x">>,
      <<"x", " ", "x">>,
      <<"SELECT", " ", "LOAD_FILE">>,
      <<"SELECT", " ", "x", ";", "--">> }

OptTexts ==
    { None, Some(<<>>), Some(<<"x">>), Some(<<"x", "'", "x">>),
      Some(<<"drop">>) }

OptSeasons == { None, Some(0), Some(2023) }

Limits == { 5, 50 }

OptMaxRows == { None, Some(0), Some(-1), Some(5) }

Formats == { "json", "markdown", "text", "csv" }

ToolTableNames ==
    { <<>>, <<"x">>, <<"x", ".", "x">>, <<"x", "'", "x">>,
      <<"x", ";", " ", "DROP", " ", "TABLE", " ", "x">> }

OptFeatures ==
    { None, Some(<<>>), Some(<< <<"a">> >>), Some(<< <<"a">>, <<"b">> >>),
      Some(<< <<"1">>, <<";">>, <<" ">>, <<"DROP", " ", "TABLE", " ", "x">> >>) }

ColumnNames == { "a", "b", "zz" }

\* the SQL NULL of a result cell (None in the data array)
NULL == "<null>"

\* status.error is set and its message (Optional[str]) is None
NoMessage == <<NULL>>

\* float(v) succeeds on these cell texts
IsFloatText(v) == v \in {"0", "1", "2"}

\* substring test `part in text` on the cell texts of the answers below
Contains(text, part) ==
    \/ text = "f1_gold_t" /\ part = "gold"
    \/ text = "f1_bronze_silver_t" /\ part \in {"bronze", "silver"}
    \/ text = "f1_gold_silverstone_t" /\ part \in {"gold", "silver"}

RemoteAnswers ==
    { [state |-> "SUCCEEDED", error |-> None, manifest |-> None,
       data_array |-> None],
      [state |-> "SUCCEEDED", error |-> None,
       manifest |-> Some(<<"table_name", "a">>),
       data_array |-> Some(<< <<"f1_gold_t", "1">>,
                              <<"f1_bronze_silver_t", NULL>>,
                              <<"f1_gold_silverstone_t", "2">> >>)],
      [state |-> "SUCCEEDED", error |-> None,
       manifest |-> Some(<<"a", "b">>),
       data_array |-> Some(<< <<"1", "x">> >>)],
      [state |-> "FAILED", error |-> Some(<<"remote error">>), manifest |-> None,
       data_array |-> None],
      [state |-> "FAILED", error |-> None, manifest |-> None,
       data_array |-> None],
      [state |-> "FAILED", error |-> Some(NoMessage), manifest |-> None,
       data_array |-> None],
      [state |-> "SUCCEEDED", error |-> None,
       manifest |-> Some(<<"a", "a">>),
       data_array |-> Some(<< <<"1", "2">> >>)],
      [state |-> "CANCELED", error |-> None, manifest |-> None,
       data_array |-> None],
      [state |-> "CLOSED", error |-> None, manifest |-> None,
       data_array |-> None] }

TransportFaults == { <<"connection refused">> }

\* str(e) of an exception raised by WorkspaceClient(host=..., token=...)
ClientFaults == { <<"cannot configure default credentials">> }

Terminal == { "SUCCEEDED", "FAILED", "CANCELED", "CLOSED" }

(***************************************************************************)
(* What each tool returns once execute_query has returned `res`             *)
(***************************************************************************)
\* dict with one more key
With(r, k, x) == [f \in DOMAIN r \cup {k} |-> IF f = k THEN x ELSE r[f]]

\* row.get(key, default)
Get(row, key, default) == IF key \in DOMAIN row THEN row[key] ELSE default

\* float(v or 0) raises on a text that is not a number
FloatRaises(v) == ~(v = NULL \/ v = "" \/ IsFloatText(v))

Raised(e) == [raised |-> e]

(***************************************************************************)
(* utils/formatters.py.  A formatter's output is the sequence of the lines  *)
(* it joins with "\n"; a line is the sequence of the strings it is built    *)
(* from (the empty line is <<>>).  A cell value carries its Python type;    *)
(* a float is held as its number of 1/100000ths.                            *)
(***************************************************************************)
Value(type, n, s, items) == [type |-> type, n |-> n, s |-> s, items |-> items]

PyNone == Value("NoneType", 0, "", <<>>)

PyFloat(n) == Value("float", n, "", <<>>)

PyInt(n) == Value("int", n, "", <<>>)

PyBool(b) == Value("bool", IF b THEN 1 ELSE 0, "", <<>>)

PyStr(s) == Value("str", 0, s, <<>>)

\* a list of ints
PyList(items) == Value("list", 0, "", items)

\* the dict {s: n}
PyDict(s, n) == Value("dict", n, s, <<>>)

\* sep.join(texts) as one string
RECURSIVE JoinText(_, _)
JoinText(sep, texts) ==
    IF texts = <<>> THEN ""
    ELSE IF Len(texts) = 1 THEN texts[1]
    ELSE texts[1] \o sep \o JoinText(sep, Tail(texts))

\* f"{value:.2f}": the float rounded to hundredths (no input lies halfway
\* between two hundredths), the sign kept, two digits after the point
Fixed2(n) ==
    LET a == IF n < 0 THEN -n ELSE n
        h == (a + 500) \div 1000
        d == h % 100
    IN (IF n < 0 THEN "-" ELSE "") \o ToString(h \div 100) \o "."
       \o (IF d < 10 THEN "0" ELSE "") \o ToString(d)

\* json.dumps of a list of ints or of a one-key dict
JsonDumps(value) ==
    IF value.type = "list"
    THEN "[" \o JoinText(", ", [i \in 1..Len(value.items) |->
                                   ToString(value.items[i])]) \o "]"
    ELSE "{\"" \o value.s \o "\": " \o ToString(value.n) \o "}"

\* str(value) of a float: repr keeps every digit (inputs have five)
FloatRepr(n) ==
    LET a == IF n < 0 THEN -n ELSE n
        f == a % 100000
    IN (IF n < 0 THEN "-" ELSE "") \o ToString(a \div 100000) \o "."
       \o (IF f < 10000 THEN "0" ELSE "") \o (IF f < 1000 THEN "0" ELSE "")
       \o (IF f < 100 THEN "0" ELSE "") \o (IF f < 10 THEN "0" ELSE "")
       \o ToString(f)

\* str(value)
Str(value) ==
    CASE value.type = "NoneType" -> "None"
      [] value.type = "float" -> FloatRepr(value.n)
      [] value.type = "bool" -> IF value.n = 1 THEN "True" ELSE "False"
      [] value.type = "int" -> ToString(value.n)
      [] value.type = "str" -> value.s
      [] OTHER -> JsonDumps(value)

\* _format_value that converts every value with str()
format_value_StrOnly(value) == Str(value)

\* ResultFormatter._format_value
format_value(value) ==
    IF value.type = "NoneType" THEN "NULL"
    ELSE IF value.type = "float" THEN Fixed2(value.n)
    ELSE IF value.type \in {"list", "dict"} THEN JsonDumps(value)
    ELSE Str(value)

\* a slice that keeps the whole sequence
Slice_KeepsAll(seq, stop) == seq

\* seq[:stop]
Slice(seq, stop) ==
    IF stop >= 0 THEN SubSeq(seq, 1, Min(Len(seq), stop))
    ELSE SubSeq(seq, 1, Max(Len(seq) + stop, 0))

\* one "---" cell less than there are columns
SeparatorCells_OneShort(columns) == [j \in 1..(Len(columns) - 1) |-> <<"---">>]

\* ["---"] * len(columns)
SeparatorCells(columns) == [j \in 1..Len(columns) |-> <<"---">>]

\* ResultFormatter.format_query_result
format_query_result(res, max_display_rows) ==
    IF ~Get(res, "success", FALSE)
    THEN << <<"Query failed: ">> \o Get(res, "error", <<"Unknown error">>) >>
    ELSE LET columns == Get(res, "columns", <<>>)
             rows == Get(res, "rows", <<>>)
             row_count == Get(res, "row_count", Len(rows))
             display_rows == Slice(rows, max_display_rows)
             row_str(row) ==
                 Join(<<" | ">>,
                      [j \in 1..Len(columns) |->
                          <<columns[j], ": ",
                            format_value(Get(row, columns[j], PyNone))>>])
         IN IF columns = <<>> THEN << <<"Query returned no columns.">> >>
            ELSE IF rows = <<>> THEN << <<"Query returned no rows.">> >>
            ELSE << <<"Query returned ", ToString(row_count), " row(s)">>,
                    <<>>,
                    <<"Columns: ">>
                    \o Join(<<", ">>, [j \in 1..Len(columns) |-> <<columns[j]>>]),
                    <<>> >>
                 \o [i \in 1..Len(display_rows) |->
                        <<"[", ToString(i), "] ">> \o row_str(display_rows[i])]
                 \o (IF row_count > max_display_rows
                     THEN << <<"... and ",
                               ToString(row_count - max_display_rows),
                               " more rows">> >>
                     ELSE <<>>)

\* ResultFormatter.format_as_markdown_table
format_as_markdown_table(res, max_rows) ==
    IF ~Get(res, "success", FALSE)
    THEN << <<"**Error:** ">> \o Get(res, "error", <<"None">>) >>
    ELSE LET columns == Get(res, "columns", <<>>)
             rows == Get(res, "rows", <<>>)
             shown == Slice(rows, max_rows)
             line(cells) == <<"| ">> \o Join(<<" | ">>, cells) \o <<" |">>
             values(row) ==
                 [j \in 1..Len(columns) |->
                     <<format_value(Get(row, columns[j], PyNone))>>]
         IN IF columns = <<>> \/ rows = <<>>
            THEN << <<"*No data to display*">> >>
            ELSE << line([j \in 1..Len(columns) |-> <<columns[j]>>]),
                    line(SeparatorCells(columns)) >>
                 \o [i \in 1..Len(shown) |-> line(values(shown[i]))]
                 \o (IF Len(rows) > max_rows
                     THEN << <<"\n", "*... ", ToString(Len(rows) - max_rows),
                               " more rows*">> >>
                     ELSE <<>>)

\* a str held with its characters
PyChars(chars) == Value("str", 0, JoinText("", chars), chars)

\* c.isdigit() for the characters of the inputs
IsDigit(c) == c \in {"0", "1", "2", "3", "4", "5", "6", "7", "8", "9"}

\* the test that accepts every string of digits, '.' and '-'
IsNumericText_NoDigitNeeded(chars) ==
    \A i \in 1..Len(chars) : IsDigit(chars[i]) \/ chars[i] \in {".", "-"}

\* val.replace(".", "").replace("-", "").isdigit(): isdigit() is False on
\* the empty string
IsNumericText(chars) ==
    LET rest == SelectSeq(chars, LAMBDA c : c \notin {".", "-"})
    IN rest # <<>> /\ \A i \in 1..Len(rest) : IsDigit(rest[i])

\* extract_numeric_columns has not been called
NotExtracted == [called |-> FALSE, numeric_cols |-> <<>>, rows |-> <<>>]

\* ResultFormatter.extract_numeric_columns: the pair (numeric_cols, rows)
extract_numeric_columns(res) ==
    IF ~Get(res, "success", FALSE) \/ Get(res, "rows", <<>>) = <<>>
    THEN [called |-> TRUE, numeric_cols |-> <<>>, rows |-> <<>>]
    ELSE LET rows == res.rows
             columns == Get(res, "columns", <<>>)
             first_row == rows[1]
             numeric(col) ==
                 LET val == Get(first_row, col, PyNone)
                 IN \/ val.type \in {"int", "bool", "float"}
                    \/ val.type = "str" /\ IsNumericText(val.items)
         IN [called |-> TRUE, numeric_cols |-> SelectSeq(columns, numeric),
             rows |-> rows]

(***************************************************************************)
(* Formatter inputs                                                         *)
(***************************************************************************)
\* the list ["a", "c"] names a column no row has
ColumnLists == { <<>>, <<"a">>, <<"a", "b">>, <<"a", "c">> }

RowDicts ==
    { [a |-> PyStr("Hamilton"), b |-> PyInt(103)],
      [a |-> PyNone, b |-> PyFloat(314159)],
      [a |-> PyList(<<1, 2>>), b |-> PyFloat(-150000)],
      [a |-> PyDict("k", 1), b |-> PyBool(TRUE)],
      [a |-> PyFloat(199600), b |-> PyFloat(0)] }

RECURSIVE RowListsOf(_)
RowListsOf(n) ==
    IF n = 0 THEN { <<>> }
    ELSE RowListsOf(n - 1)
         \cup { Append(rows, row) : rows \in RowListsOf(n - 1), row \in RowDicts }

RowLists == RowListsOf(MaxRowsLen)

\* results as execute_query builds them
SuccessResults ==
    { [success |-> TRUE, columns |-> columns, rows |-> rows,
       row_count |-> Len(rows)] : columns \in ColumnLists, rows \in RowLists }

\* successful results without the row_count key
BareResults ==
    { [success |-> TRUE, columns |-> columns, rows |-> rows] :
         columns \in ColumnLists, rows \in RowLists }

FailureResults ==
    { [success |-> FALSE, error |-> <<"Connection timeout">>],
      [success |-> FALSE, error |-> <<"remote error">>,
       state |-> "StatementState.FAILED"] }

\* first-row and later-row cells for extract_numeric_columns
NumericCells ==
    { PyNone, PyInt(7), PyFloat(150000), PyBool(TRUE), PyChars(<<>>),
      PyChars(<<"1", ".", "5">>), PyChars(<<"-", "2">>), PyChars(<<"-">>),
      PyChars(<<"1", "x">>), PyChars(<<"x">>) }

NumericRows ==
    { [a |-> x, b |-> y] : x \in NumericCells,
                           y \in {PyInt(7), PyChars(<<"x">>)} }

RECURSIVE NumericRowListsOf(_)
NumericRowListsOf(n) ==
    IF n = 0 THEN { <<>> }
    ELSE NumericRowListsOf(n - 1)
         \cup { Append(rows, row) : rows \in NumericRowListsOf(n - 1),
                                    row \in NumericRows }

NumericResults ==
    { [success |-> TRUE, columns |-> columns, rows |-> rows,
       row_count |-> Len(rows)] :
         columns \in {<<>>, <<"a">>, <<"a", "b">>, <<"b", "a">>, <<"a", "c">>},
         rows \in NumericRowListsOf(MaxRowsLen) }

\* the row maxima the formatters are given
RowMaxima == 0..(MaxRowsLen + 1)

\* the default of format_query_result's max_display_rows
default_max_display_rows == 50

\* the default of format_as_markdown_table's max_rows
default_max_rows == 20

\* the result of execute_query as the formatters read it: a cell of the
\* data array is a str or None
AsValues(res) ==
    IF "rows" \in DOMAIN res
    THEN [res EXCEPT !.rows =
             [i \in 1..Len(res.rows) |->
                 [c \in DOMAIN res.rows[i] |->
                     IF res.rows[i][c] = NULL THEN PyNone
                     ELSE PyStr(res.rows[i][c])]]]
    ELSE res

\* a tool that formats whatever execute_query returned
query_f1_data_response_FormatsFailures(a, res) ==
    IF a.format = "markdown"
    THEN With(res, "formatted",
              format_as_markdown_table(AsValues(res), default_max_rows))
    ELSE IF a.format = "text"
    THEN With(res, "formatted",
              format_query_result(AsValues(res), default_max_display_rows))
    ELSE res

\* the tail of query_f1_data: result["formatted"] is set on the dictionary
\* execute_query returned
query_f1_data_response(a, res) ==
    IF a.format = "markdown" /\ res.success
    THEN With(res, "formatted",
              format_as_markdown_table(AsValues(res), default_max_rows))
    ELSE IF a.format = "text" /\ res.success
    THEN With(res, "formatted",
              format_query_result(AsValues(res), default_max_display_rows))
    ELSE res

\* str.split(".")[-1]
RECURSIVE LastPart(_)
LastPart(s) ==
    IF "." \in Range(s) THEN LastPart(Tail(s)) ELSE s

describe_table_response(a, res) ==
    IF res.success
    THEN With(With(With(res, "table_name", LastPart(a.table_name)),
                   "full_table_name",
                   <<databricks_catalog, ".", databricks_schema, ".">>
                   \o LastPart(a.table_name)),
              "formatted", "format_table_schema")
    ELSE res

\* the rows of one layer bucket
Bucket(rows, layer) ==
    SelectSeq(rows,
              LAMBDA row :
                 LET table_name == Get(row, "table_name", "")
                 IN CASE layer = "bronze" -> Contains(table_name, "bronze")
                      [] layer = "silver" -> /\ ~Contains(table_name, "bronze")
                                             /\ Contains(table_name, "silver")
                      [] layer = "gold" -> /\ ~Contains(table_name, "bronze")
                                           /\ ~Contains(table_name, "silver")
                                           /\ Contains(table_name, "gold"))

list_f1_tables_response(a, res) ==
    IF res.success
    THEN With(res, "tables_by_layer",
              [bronze |-> Bucket(res.rows, "bronze"),
               silver |-> Bucket(res.rows, "silver"),
               gold |-> Bucket(res.rows, "gold")])
    ELSE res

chart_custom_response(a, res) ==
    IF ~res.success THEN res
    ELSE IF res.rows = <<>>
    THEN [success |-> FALSE, error |-> <<"Query returned no data.">>]
    ELSE IF a.x_column \notin Range(res.columns)
    THEN [success |-> FALSE,
          error |-> <<"Column '", a.x_column, "' not found. Available: ">>
                    \o Join(<<", ">>, [i \in 1..Len(res.columns) |->
                                          <<res.columns[i]>>])]
    ELSE IF a.y_column \notin Range(res.columns)
    THEN [success |-> FALSE,
          error |-> <<"Column '", a.y_column, "' not found. Available: ">>
                    \o Join(<<", ">>, [i \in 1..Len(res.columns) |->
                                          <<res.columns[i]>>])]
    ELSE IF \E i \in 1..Len(res.rows) :
                FloatRaises(Get(res.rows[i], a.y_column, "0"))
    THEN Raised("ValueError")
    ELSE [success |-> TRUE, query |-> a.query, row_count |-> Len(res.rows),
          chart |-> "chart_result"]

\* features or default_features
FeaturesOf(features) ==
    IF features.some /\ features.v # <<>> THEN features.v ELSE default_features

chart_correlation_heatmap_response(a, res) ==
    LET features == FeaturesOf(a.features)
        name(f) == IF Len(f) = 1 THEN f[1] ELSE ""
        valid(row) == \A i \in 1..Len(features) :
                         Get(row, name(features[i]), NULL) # NULL
        valid_rows == SelectSeq(res.rows, valid)
    IN IF ~res.success THEN res
       ELSE IF res.rows = <<>>
       THEN [success |-> FALSE,
             error |-> <<"No data found for correlation analysis.">>]
       ELSE IF \E r \in 1..Len(valid_rows) : \E i \in 1..Len(features) :
                  ~IsFloatText(Get(valid_rows[r], name(features[i]), "0"))
       THEN Raised("ValueError")
       ELSE IF valid_rows = <<>>
       THEN [success |-> FALSE,
             error |-> <<"Not enough valid data for correlation analysis.">>]
       ELSE [success |-> TRUE, features |-> features,
             data_points |-> Len(valid_rows), chart |-> "chart_result"]

ToolResponse(t, a, res) ==
    CASE t = "query_f1_data" -> query_f1_data_response(a, res)
      [] t = "describe_table" -> describe_table_response(a, res)
      [] t = "list_f1_tables" -> list_f1_tables_response(a, res)
      [] t = "chart_custom" -> chart_custom_response(a, res)
      [] t = "chart_correlation_heatmap" ->
            chart_correlation_heatmap_response(a, res)
      [] OTHER -> res

(***************************************************************************)
(* The tools.  An invocation runs from the call of the tool to the remote   *)
(* execute_statement call (or to an early return), waits for the remote      *)
(* primitive, and then runs to the tool's return.                            *)
(***************************************************************************)
Ev(name, text, ok) == [ev |-> name, text |-> text, ok |-> ok]

\* the invocation calls get_databricks_client()
CallsClient(evs) ==
    \E i \in 1..Len(evs) : evs[i].ev = "get_databricks_client"

\* the calls of the invocation up to a get_databricks_client() that raised
UpToFailedClient(evs) ==
    LET n == CHOOSE i \in 1..Len(evs) : evs[i].ev = "get_databricks_client"
    IN [i \in 1..n |-> IF i = n THEN [evs[i] EXCEPT !.ok = FALSE] ELSE evs[i]]

\* the invocation starts: it is the next one of the process
Invoke(t, a) ==
    /\ pc = "idle"
    /\ calls < MaxCalls
    /\ tool' = t
    /\ args' = a
    /\ calls' = calls + 1
    /\ UNCHANGED settings
    /\ UNCHANGED <<vvars, fvars, svars>>

\* get_databricks_client() finds no instance and DatabricksClient() fails
\* to load the Settings: the exception leaves the tool
SettingsFail(t, a, evs) ==
    /\ CallsClient(evs)
    /\ client = "none"
    /\ Invoke(t, a)
    /\ pc' = "returned"
    /\ events' = UpToFailedClient(evs)
    /\ response' = Raised("ValidationError")
    /\ UNCHANGED <<request, remote, elapsed, result, client, submissions>>

\* the invocation returns `resp` without calling execute_query
ReturnEarly(t, a, evs, resp) ==
    \/ SettingsFail(t, a, evs)
    \/ /\ Invoke(t, a)
       /\ pc' = "returned"
       /\ events' = evs
       /\ response' = resp
       /\ client' = IF CallsClient(evs) /\ client = "none"
                    THEN "created" ELSE client
       /\ UNCHANGED <<request, remote, elapsed, result, submissions>>

\* the invocation calls client.execute_query(query, max_rows), which reads
\* self.client (building the WorkspaceClient on first use) and calls
\* statement_execution.execute_statement
Execute(t, a, evs, query, max_rows) ==
    \/ SettingsFail(t, a, evs)
    \/ /\ client # "connected"
       /\ Invoke(t, a)
       /\ \E e \in ClientFaults :
           /\ events' = evs \o <<Ev("execute_query", query, TRUE),
                                  Ev("WorkspaceClient", e, FALSE)>>
           /\ result' = ExceptionResult(e)
           /\ response' = ToolResponse(t, a, ExceptionResult(e))
       /\ pc' = "returned"
       /\ client' = "created"
       /\ UNCHANGED <<request, remote, elapsed, submissions>>
    \/ /\ Invoke(t, a)
       /\ pc' = "waiting"
       /\ events' = evs \o <<Ev("execute_query", query, TRUE)>>
                        \o (IF client = "connected" THEN <<>>
                            ELSE <<Ev("WorkspaceClient", <<>>, TRUE)>>)
                        \o <<Ev("execute_statement", query, TRUE)>>
       /\ request' = ExecuteStatementRequest(query, max_rows)
       /\ remote' = [NoRemote EXCEPT !.state = "PENDING"]
       /\ elapsed' = FALSE
       /\ client' = "connected"
       /\ submissions' = submissions + 1
       /\ UNCHANGED <<result, response>>

\* validator = get_sql_validator(); validation = validator.validate_query(query)
ValidationEvents(query) ==
    <<Ev("get_sql_validator", <<>>, TRUE),
      Ev("validate_query", query, validate_query(query).is_valid)>>

ClientEvent == Ev("get_databricks_client", <<>>, TRUE)

\* query_f1_data that executes the query whatever the validator answered
query_f1_data_IgnoresValidation ==
    /\ pc = "idle"
    /\ calls < MaxCalls
    /\ \E query \in ToolQueries, max_rows \in OptMaxRows, format \in Formats :
        Execute("query_f1_data",
                [query |-> query, max_rows |-> max_rows, format |-> format],
                ValidationEvents(query) \o <<ClientEvent>>, query,
                IF TruthyInt(max_rows) THEN max_rows ELSE Some(1000))

query_f1_data ==
    /\ pc = "idle"
    /\ calls < MaxCalls
    /\ \E query \in ToolQueries, max_rows \in OptMaxRows, format \in Formats :
        LET a == [query |-> query, max_rows |-> max_rows, format |-> format]
            validation == validate_query(query)
        IN IF ~validation.is_valid
           THEN ReturnEarly("query_f1_data", a, ValidationEvents(query),
                            [success |-> FALSE,
                             error |-> validation.error_message.v])
           ELSE Execute("query_f1_data", a,
                        ValidationEvents(query) \o <<ClientEvent>>, query,
                        IF TruthyInt(max_rows) THEN max_rows ELSE Some(1000))

chart_custom ==
    /\ pc = "idle"
    /\ calls < MaxCalls
    /\ \E query \in ToolQueries, x_column \in ColumnNames, y_column \in ColumnNames :
        LET a == [query |-> query, x_column |-> x_column, y_column |-> y_column]
            validation == validate_query(query)
        IN IF ~validation.is_valid
           THEN ReturnEarly("chart_custom", a, ValidationEvents(query),
                            [success |-> FALSE,
                             error |-> validation.error_message.v])
           ELSE Execute("chart_custom", a,
                        ValidationEvents(query) \o <<ClientEvent>>, query,
                        Some(500))

get_driver_season_stats ==
    /\ pc = "idle"
    /\ calls < MaxCalls
    /\ \E driver_name \in OptTexts, season \in OptSeasons, team_name \in OptTexts,
       limit \in Limits :
        Execute("get_driver_season_stats",
                [driver_name |-> driver_name, season |-> season,
                 team_name |-> team_name, limit |-> limit],
                <<ClientEvent>>,
                driver_season_stats_query(driver_name, season, team_name, limit),
                None)

get_constructor_season_stats ==
    /\ pc = "idle"
    /\ calls < MaxCalls
    /\ \E team_name \in OptTexts, season \in OptSeasons, limit \in Limits :
        Execute("get_constructor_season_stats",
                [team_name |-> team_name, season |-> season, limit |-> limit],
                <<ClientEvent>>,
                constructor_season_stats_query(team_name, season, limit),
                None)

get_race_results ==
    /\ pc = "idle"
    /\ calls < MaxCalls
    /\ \E race_name \in OptTexts, season \in OptSeasons, driver_name \in OptTexts,
       limit \in Limits :
        Execute("get_race_results",
                [race_name |-> race_name, season |-> season,
                 driver_name |-> driver_name, limit |-> limit],
                <<ClientEvent>>,
                race_results_query(race_name, season, driver_name, limit),
                None)

get_pit_stop_data ==
    /\ pc = "idle"
    /\ calls < MaxCalls
    /\ \E season \in OptSeasons, driver_name \in OptTexts, team_name \in OptTexts,
       limit \in Limits :
        Execute("get_pit_stop_data",
                [season |-> season, driver_name |-> driver_name,
                 team_name |-> team_name, limit |-> limit],
                <<ClientEvent>>,
                pit_stop_data_query(season, driver_name, team_name, limit),
                None)

list_f1_tables ==
    /\ pc = "idle"
    /\ calls < MaxCalls
    /\ \E include_bronze \in BOOLEAN, include_silver \in BOOLEAN,
       include_gold \in BOOLEAN :
        LET a == [include_bronze |-> include_bronze,
                  include_silver |-> include_silver,
                  include_gold |-> include_gold]
            layer_conditions ==
                LayerConditions(include_bronze, include_silver, include_gold)
        IN IF layer_conditions = <<>>
           THEN ReturnEarly("list_f1_tables", a, <<ClientEvent>>,
                            [success |-> FALSE,
                             error |-> <<"At least one layer must be included">>])
           ELSE Execute("list_f1_tables", a, <<ClientEvent>>,
                        list_tables_query(layer_conditions), None)

describe_table ==
    /\ pc = "idle"
    /\ calls < MaxCalls
    /\ \E table_name \in ToolTableNames :
        Execute("describe_table", [table_name |-> table_name],
                <<ClientEvent>>,
                table_schema_query(LastPart(table_name)), None)

get_table_sample ==
    /\ pc = "idle"
    /\ calls < MaxCalls
    /\ \E table_name \in ToolTableNames, limit \in Limits :
        Execute("get_table_sample",
                [table_name |-> table_name, limit |-> limit],
                <<ClientEvent>>,
                table_sample_query(table_name, Min(limit, 20)), None)

chart_correlation_heatmap ==
    /\ pc = "idle"
    /\ calls < MaxCalls
    /\ \E features \in OptFeatures, season \in OptSeasons :
        Execute("chart_correlation_heatmap",
                [features |-> features, season |-> season],
                <<ClientEvent>>,
                correlation_query(FeaturesOf(features), season), None)

(***************************************************************************)
(* services/model_service.py and tools/ml_tools.py                          *)
(***************************************************************************)
\* the values of PredictionType
PredictionType == {"optimal_pit_count", "pit_stop_duration"}

\* ModelService._model_version
model_version == "placeholder-v0.1"

\* a str held as the pieces of its text
PyText(pieces) == Value("str", 0, "", pieces)

\* PitStopPrediction with the defaults of the dataclass
PitStopPrediction(prediction_type, fields) ==
    [f \in {"prediction_type", "optimal_pit_count", "predicted_total_pit_ms",
            "predicted_avg_pit_ms", "confidence", "model_version", "message"} |->
        IF f \in DOMAIN fields THEN fields[f]
        ELSE CASE f = "prediction_type" -> PyStr(prediction_type)
               [] f = "confidence" -> PyFloat(0)
               [] f = "model_version" -> PyStr(model_version)
               [] f = "message" -> PyText(<<>>)
               [] OTHER -> PyNone]

\* a placeholder that has two bands only
predict_optimal_pit_count_TwoBands(circuit_id, driver_id, season, race_laps) ==
    PitStopPrediction(
        "optimal_pit_count",
        [optimal_pit_count |-> PyInt(IF race_laps < 40 THEN 1 ELSE 2),
         confidence |-> PyFloat(0),
         model_version |-> PyStr(model_version),
         message |-> PyText(<<"PLACEHOLDER", ": This is a ", "placeholder",
                              " prediction. ",
                              "Integration of the model is on the way">>)])

\* ModelService.predict_optimal_pit_count
predict_optimal_pit_count(circuit_id, driver_id, season, race_laps) ==
    PitStopPrediction(
        "optimal_pit_count",
        [optimal_pit_count |->
             PyInt(IF race_laps < 40 THEN 1
                   ELSE IF race_laps < 60 THEN 2 ELSE 3),
         confidence |-> PyFloat(0),
         model_version |-> PyStr(model_version),
         message |-> PyText(<<"PLACEHOLDER", ": This is a ", "placeholder",
                              " prediction. ",
                              "Integration of the model is on the way">>)])

\* ModelService.predict_pit_stop_duration: 2500.0 and 2500.0 * pit_stop_number
predict_pit_stop_duration(circuit_id, driver_id, constructor_id, season, pit_stop_number) ==
    PitStopPrediction(
        "pit_stop_duration",
        [predicted_avg_pit_ms |-> PyFloat(2500 * 100000),
         predicted_total_pit_ms |-> PyFloat(2500 * 100000 * pit_stop_number),
         confidence |-> PyFloat(0),
         model_version |-> PyStr(model_version),
         message |-> PyText(<<"PLACEHOLDER", ": This is a ", "placeholder",
                              " prediction. ",
                              "Integrate your trained ML model here for accurate predictions.">>)])

\* x or 0
OrZero(x) == IF TruthyInt(x) THEN x.v ELSE 0

\* the service call predict_pit_stops makes, "" when it returns before one
ServiceCall(a) ==
    IF a.prediction_type \notin PredictionType THEN ""
    ELSE IF a.prediction_type = "optimal_pit_count"
    THEN "predict_optimal_pit_count"
    ELSE IF ~TruthyInt(a.constructor_id) THEN ""
    ELSE "predict_pit_stop_duration"

\* the calls of predict_pit_stops, in order
predict_pit_stops_events(a) ==
    <<Ev("get_model_service", <<>>, TRUE)>>
    \o (IF ServiceCall(a) = "" THEN <<>>
        ELSE <<Ev(ServiceCall(a), <<>>, TRUE)>>)

\* what predict_pit_stops returns
predict_pit_stops_response(a) ==
    IF a.prediction_type \notin PredictionType
    THEN [success |-> FALSE,
          error |-> <<"Invalid prediction type. Choose from: ",
                      "['optimal_pit_count', 'pit_stop_duration']">>]
    ELSE IF a.prediction_type = "pit_stop_duration"
            /\ ~TruthyInt(a.constructor_id)
    THEN [success |-> FALSE,
          error |-> <<"constructor_id is required for pit stop duration prediction.">>]
    ELSE LET prediction ==
                 IF a.prediction_type = "optimal_pit_count"
                 THEN predict_optimal_pit_count(OrZero(a.circuit_id),
                                                OrZero(a.driver_id),
                                                a.season, a.race_laps)
                 ELSE predict_pit_stop_duration(OrZero(a.circuit_id),
                                                OrZero(a.driver_id),
                                                a.constructor_id.v, a.season,
                                                a.pit_stop_number)
         IN [f \in {"success", "input_parameters"} \cup DOMAIN prediction |->
                IF f = "success" THEN TRUE
                ELSE IF f = "input_parameters" THEN a
                ELSE prediction[f]]

\* the arguments predict_pit_stops is called with
PredictionTypeTexts ==
    {"optimal_pit_count", "pit_stop_duration", "OPTIMAL_PIT_COUNT", "tyres"}

OptIds == { None, Some(0), Some(3) }

RaceLaps == { 0, 39, 40, 59, 60, 78 }

PitStopNumbers == { 1, 2 }

predict_pit_stops ==
    /\ pc = "idle"
    /\ calls < MaxCalls
    /\ \E prediction_type \in PredictionTypeTexts, circuit_id \in OptIds,
          constructor_id \in OptIds, race_laps \in RaceLaps,
          pit_stop_number \in PitStopNumbers :
        LET a == [prediction_type |-> prediction_type,
                  circuit_id |-> circuit_id, driver_id |-> None,
                  constructor_id |-> constructor_id, season |-> 2023,
                  race_laps |-> race_laps,
                  pit_stop_number |-> pit_stop_number,
                  weather_conditions |-> None, tire_compound |-> None]
        IN ReturnEarly("predict_pit_stops", a, predict_pit_stops_events(a),
                       predict_pit_stops_response(a))

(***************************************************************************)
(* The remote execution primitive during the bounded wait                   *)
(***************************************************************************)
\* the warehouse starts running the statement
remote_runs ==
    /\ pc = "waiting"
    /\ ~elapsed
    /\ remote.state = "PENDING"
    /\ remote' = [remote EXCEPT !.state = "RUNNING"]
    /\ UNCHANGED <<settings, pc, tool, args, events, request, elapsed,
                   result, response, calls, client, submissions>>
    /\ UNCHANGED <<vvars, fvars, svars>>

\* the statement reaches a terminal state within the wait
remote_finishes ==
    /\ pc = "waiting"
    /\ ~elapsed
    /\ remote.state \in {"PENDING", "RUNNING"}
    /\ \E answer \in RemoteAnswers : remote' = answer
    /\ UNCHANGED <<settings, pc, tool, args, events, request, elapsed,
                   result, response, calls, client, submissions>>
    /\ UNCHANGED <<vvars, fvars, svars>>

\* wait_timeout elapses with the statement still pending or running;
\* on_wait_timeout=CONTINUE lets the call return with that state
wait_elapses ==
    /\ pc = "waiting"
    /\ ~elapsed
    /\ remote.state \in {"PENDING", "RUNNING"}
    /\ elapsed' = TRUE
    /\ UNCHANGED <<settings, pc, tool, args, events, request, remote,
                   result, response, calls, client, submissions>>
    /\ UNCHANGED <<vvars, fvars, svars>>

\* execute_statement returns: execute_query maps the statement to its
\* result and the tool builds its response
execute_statement_returns ==
    /\ pc = "waiting"
    /\ remote.state \in Terminal \/ elapsed
    /\ result' = QueryResult(remote)
    /\ response' = ToolResponse(tool, args, QueryResult(remote))
    /\ pc' = "returned"
    /\ UNCHANGED <<settings, tool, args, events, request, remote, elapsed,
                   calls, client, submissions>>
    /\ UNCHANGED <<vvars, fvars, svars>>

\* execute_query that submits the statement once more when the call raised
execute_statement_raises_Retries ==
    /\ pc = "waiting"
    /\ ~elapsed
    /\ Len(SelectSeq(events, LAMBDA x : x.ev = "execute_statement")) < 2
    /\ events' = Append(events,
                        Ev("execute_statement", request.statement, TRUE))
    /\ submissions' = submissions + 1
    /\ remote' = [NoRemote EXCEPT !.state = "PENDING"]
    /\ UNCHANGED <<settings, pc, tool, args, request, elapsed, result,
                   response, calls, client>>
    /\ UNCHANGED <<vvars, fvars, svars>>

\* execute_statement raises instead of returning a statement:
\* execute_query catches the exception
execute_statement_raises ==
    /\ pc = "waiting"
    /\ ~elapsed
    /\ \E e \in TransportFaults :
        /\ events' = Append(events, Ev("except", e, FALSE))
        /\ result' = ExceptionResult(e)
        /\ response' = ToolResponse(tool, args, ExceptionResult(e))
    /\ remote' = [NoRemote EXCEPT !.state = "UNKNOWN"]
    /\ pc' = "returned"
    /\ UNCHANGED <<settings, tool, args, request, elapsed, calls, client,
                   submissions>>
    /\ UNCHANGED <<vvars, fvars, svars>>

\* the host starts over with the next invocation; the process keeps its
\* client and nothing else of the finished invocation
next_invocation ==
    /\ pc = "returned"
    /\ pc' = "idle"
    /\ tool' = ""
    /\ args' = NoArgs
    /\ events' = <<>>
    /\ request' = NoRequest
    /\ remote' = NoRemote
    /\ elapsed' = FALSE
    /\ result' = NoResult
    /\ response' = NoResult
    /\ UNCHANGED <<settings, calls, client, submissions>>
    /\ UNCHANGED <<vvars, fvars, svars>>

GatewayIdle ==
    /\ pc = "idle"
    /\ tool = ""
    /\ args = NoArgs
    /\ events = <<>>
    /\ request = NoRequest
    /\ remote = NoRemote
    /\ elapsed = FALSE
    /\ result = NoResult
    /\ response = NoResult
    /\ calls = 0
    /\ client = "none"
    /\ submissions = 0

ValidatorIdle ==
    /\ v_op = "none"
    /\ v_query = <<>>
    /\ v_table = <<>>
    /\ v_catalogs = <<>>
    /\ v_done = FALSE
    /\ v_result = ValidationResult(FALSE, None)
    /\ v_text = <<>>

FormatterIdle ==
    /\ f_result = NoResult
    /\ f_max_display_rows = 0
    /\ f_max_rows = 0
    /\ f_text = <<>>
    /\ f_markdown = <<>>
    /\ f_numeric = NotExtracted

\* no invocation uses the accessors
AccessorsIdle ==
    /\ s_validator = 0
    /\ s_client_instance = 0
    /\ s_client = [i \in 1..MaxConcurrent |-> 0]
    /\ s_made = [SQLValidator |-> 0, DatabricksClient |-> 0,
                 WorkspaceClient |-> 0]
    /\ s_writes = {}
    /\ s_pc = [t \in 1..MaxConcurrent |-> "none"]
    /\ s_got = [t \in 1..MaxConcurrent |-> NoInstances]

Init ==
    /\ settings \in [query_timeout_seconds : TimeoutValues,
                     max_result_rows : {max_result_rows}]
    /\ GatewayIdle
    /\ AccessorsIdle
    /\ ValidatorIdle
    /\ FormatterIdle

Next ==
    \/ query_f1_data
    \/ chart_custom
    \/ get_driver_season_stats
    \/ get_constructor_season_stats
    \/ get_race_results
    \/ get_pit_stop_data
    \/ list_f1_tables
    \/ describe_table
    \/ get_table_sample
    \/ chart_correlation_heatmap
    \/ predict_pit_stops
    \/ remote_runs
    \/ remote_finishes
    \/ wait_elapses
    \/ execute_statement_returns
    \/ execute_statement_raises
    \/ next_invocation

Spec == Init /\ [][Next]_vars

(***************************************************************************)
(* The validator applied to one input                                       *)
(***************************************************************************)
ValidatorInit ==
    /\ settings = [query_timeout_seconds |-> 120,
                   max_result_rows |-> max_result_rows]
    /\ GatewayIdle
    /\ AccessorsIdle
    /\ FormatterIdle
    /\ v_done = FALSE
    /\ v_result = ValidationResult(FALSE, None)
    /\ v_text = <<>>
    /\ \/ /\ v_op = "validate_query"
          /\ v_query \in Queries
          /\ v_table = <<>>
          /\ v_catalogs = <<>>
       \/ /\ v_op = "validate_table_name"
          /\ v_query = <<>>
          /\ v_table \in TableNames
          /\ v_catalogs \in CatalogLists
       \/ /\ v_op = "sanitize_identifier"
          /\ v_query = <<>>
          /\ v_table \in TableNames
          /\ v_catalogs \in CatalogLists

call_validate_query ==
    /\ v_op = "validate_query"
    /\ ~v_done
    /\ v_result' = validate_query(v_query)
    /\ v_done' = TRUE
    /\ UNCHANGED <<v_op, v_query, v_table, v_catalogs, v_text>>
    /\ UNCHANGED <<gvars, fvars, svars>>

call_validate_table_name ==
    /\ v_op = "validate_table_name"
    /\ ~v_done
    /\ v_result' = validate_table_name(v_catalogs, v_table)
    /\ v_done' = TRUE
    /\ UNCHANGED <<v_op, v_query, v_table, v_catalogs, v_text>>
    /\ UNCHANGED <<gvars, fvars, svars>>

call_sanitize_identifier ==
    /\ v_op = "sanitize_identifier"
    /\ ~v_done
    /\ v_text' = sanitize_identifier(v_table)
    /\ v_done' = TRUE
    /\ UNCHANGED <<v_op, v_query, v_table, v_catalogs, v_result>>
    /\ UNCHANGED <<gvars, fvars, svars>>

ValidatorNext ==
    \/ call_validate_query
    \/ call_validate_table_name
    \/ call_sanitize_identifier

ValidatorSpec == ValidatorInit /\ [][ValidatorNext]_vars

(***************************************************************************)
(* The formatters applied to one result                                     *)
(***************************************************************************)
FormatterInit ==
    /\ settings = [query_timeout_seconds |-> 120,
                   max_result_rows |-> max_result_rows]
    /\ GatewayIdle
    /\ AccessorsIdle
    /\ ValidatorIdle
    /\ \/ f_result \in SuccessResults
       \/ f_result \in BareResults
       \/ f_result \in FailureResults
    /\ f_max_display_rows \in RowMaxima
    /\ f_max_rows \in RowMaxima
    /\ f_text = <<>>
    /\ f_markdown = <<>>
    /\ f_numeric = NotExtracted

call_format_query_result ==
    /\ f_text = <<>>
    /\ f_text' = format_query_result(f_result, f_max_display_rows)
    /\ UNCHANGED <<f_result, f_max_display_rows, f_max_rows, f_markdown,
                   f_numeric>>
    /\ UNCHANGED <<gvars, vvars, svars>>

call_format_as_markdown_table ==
    /\ f_markdown = <<>>
    /\ f_markdown' = format_as_markdown_table(f_result, f_max_rows)
    /\ UNCHANGED <<f_result, f_max_display_rows, f_max_rows, f_text,
                   f_numeric>>
    /\ UNCHANGED <<gvars, vvars, svars>>

FormatterNext ==
    \/ call_format_query_result
    \/ call_format_as_markdown_table

FormatterSpec == FormatterInit /\ [][FormatterNext]_vars

(***************************************************************************)
(* The formatters applied to a result dictionary of any caller: the         *)
(* formatters are static methods that take a plain dict, whose row_count    *)
(* need not be the length of its rows                                       *)
(***************************************************************************)
MiscountedResults ==
    UNION { { [success |-> TRUE, columns |-> columns, rows |-> rows,
               row_count |-> row_count] :
                 columns \in ColumnLists,
                 row_count \in (0..(MaxRowsLen + 1)) \ {Len(rows)} } :
            rows \in RowLists }

FormatterCallerInit ==
    /\ settings = [query_timeout_seconds |-> 120,
                   max_result_rows |-> max_result_rows]
    /\ GatewayIdle
    /\ AccessorsIdle
    /\ ValidatorIdle
    /\ \/ f_result \in SuccessResults
       \/ f_result \in MiscountedResults
    /\ f_max_display_rows \in RowMaxima
    /\ f_max_rows \in RowMaxima
    /\ f_text = <<>>
    /\ f_markdown = <<>>
    /\ f_numeric = NotExtracted

FormatterCallerSpec == FormatterCallerInit /\ [][FormatterNext]_vars

(***************************************************************************)
(* extract_numeric_columns applied to one result                            *)
(***************************************************************************)
NumericInit ==
    /\ settings = [query_timeout_seconds |-> 120,
                   max_result_rows |-> max_result_rows]
    /\ GatewayIdle
    /\ AccessorsIdle
    /\ ValidatorIdle
    /\ \/ f_result \in NumericResults
       \/ f_result \in FailureResults
    /\ f_max_display_rows = 0
    /\ f_max_rows = 0
    /\ f_text = <<>>
    /\ f_markdown = <<>>
    /\ f_numeric = NotExtracted

call_extract_numeric_columns ==
    /\ ~f_numeric.called
    /\ f_numeric' = extract_numeric_columns(f_result)
    /\ UNCHANGED <<f_result, f_max_display_rows, f_max_rows, f_text,
                   f_markdown>>
    /\ UNCHANGED <<gvars, vvars, svars>>

NumericNext == call_extract_numeric_columns

NumericSpec == NumericInit /\ [][NumericNext]_vars

(***************************************************************************)
(* Concurrent tool invocations calling get_sql_validator,                   *)
(* get_databricks_client and DatabricksClient.client.  Each accessor is     *)
(* three steps of the calling invocation: the test `is None`, the           *)
(* construction with the assignment, and the read of the variable for the   *)
(* return.  No lock is held between them.                                   *)
(***************************************************************************)
AccessorsInit ==
    /\ settings = [query_timeout_seconds |-> 120,
                   max_result_rows |-> max_result_rows]
    /\ GatewayIdle
    /\ ValidatorIdle
    /\ FormatterIdle
    /\ s_validator = 0
    /\ s_client_instance = 0
    /\ s_client = [i \in 1..MaxConcurrent |-> 0]
    /\ s_made = [SQLValidator |-> 0, DatabricksClient |-> 0,
                 WorkspaceClient |-> 0]
    /\ s_writes = {}
    /\ s_pc = [t \in 1..MaxConcurrent |-> "get_sql_validator"]
    /\ s_got = [t \in 1..MaxConcurrent |-> NoInstances]

\* `if <variable> is None:` of an accessor at position p: go on to the
\* construction at `make` or to the return at `ret`
test_is_None(t, p, value, make, ret) ==
    /\ s_pc[t] = p
    /\ s_pc' = [s_pc EXCEPT ![t] = IF value = 0 THEN make ELSE ret]
    /\ UNCHANGED <<s_validator, s_client_instance, s_client, s_made,
                   s_writes, s_got>>
    /\ UNCHANGED <<gvars, vvars, fvars>>

\* get_sql_validator: `if _validator is None:`
get_sql_validator_test ==
    \E t \in 1..MaxConcurrent :
        /\ s_pc[t] = "get_sql_validator"
        /\ test_is_None(t, "get_sql_validator", s_validator,
                        "make_SQLValidator", "return_validator")

\* get_sql_validator: `_validator = SQLValidator()`
get_sql_validator_assign ==
    \E t \in 1..MaxConcurrent :
        /\ s_pc[t] = "make_SQLValidator"
        /\ s_made' = [s_made EXCEPT !.SQLValidator = @ + 1]
        /\ s_validator' = s_made.SQLValidator + 1
        /\ s_writes' = s_writes \cup {<<"_validator", 0, t>>}
        /\ s_pc' = [s_pc EXCEPT ![t] = "return_validator"]
        /\ UNCHANGED <<s_client_instance, s_client, s_got>>
        /\ UNCHANGED <<gvars, vvars, fvars>>

\* get_sql_validator: `return _validator`
get_sql_validator_return ==
    \E t \in 1..MaxConcurrent :
        /\ s_pc[t] = "return_validator"
        /\ s_got' = [s_got EXCEPT ![t].validator = s_validator]
        /\ s_pc' = [s_pc EXCEPT ![t] = "get_databricks_client"]
        /\ UNCHANGED <<s_validator, s_client_instance, s_client, s_made,
                       s_writes>>
        /\ UNCHANGED <<gvars, vvars, fvars>>

\* get_databricks_client: `if _client_instance is None:`
get_databricks_client_test ==
    \E t \in 1..MaxConcurrent :
        /\ s_pc[t] = "get_databricks_client"
        /\ test_is_None(t, "get_databricks_client", s_client_instance,
                        "make_DatabricksClient", "return_client_instance")

\* get_databricks_client: `_client_instance = DatabricksClient()`; the new
\* instance has `_client = None`
get_databricks_client_assign ==
    \E t \in 1..MaxConcurrent :
        /\ s_pc[t] = "make_DatabricksClient"
        /\ s_made' = [s_made EXCEPT !.DatabricksClient = @ + 1]
        /\ s_client_instance' = s_made.DatabricksClient + 1
        /\ s_writes' = s_writes \cup {<<"_client_instance", 0, t>>}
        /\ s_pc' = [s_pc EXCEPT ![t] = "return_client_instance"]
        /\ UNCHANGED <<s_validator, s_client, s_got>>
        /\ UNCHANGED <<gvars, vvars, fvars>>

\* get_databricks_client: `return _client_instance`
get_databricks_client_return ==
    \E t \in 1..MaxConcurrent :
        /\ s_pc[t] = "return_client_instance"
        /\ s_got' = [s_got EXCEPT ![t].client_instance = s_client_instance]
        /\ s_pc' = [s_pc EXCEPT ![t] = "client"]
        /\ UNCHANGED <<s_validator, s_client_instance, s_client, s_made,
                       s_writes>>
        /\ UNCHANGED <<gvars, vvars, fvars>>

\* DatabricksClient.client of the instance the invocation holds:
\* `if self._client is None:`
client_test ==
    \E t \in 1..MaxConcurrent :
        /\ s_pc[t] = "client"
        /\ test_is_None(t, "client", s_client[s_got[t].client_instance],
                        "make_WorkspaceClient", "return_client")

\* DatabricksClient.client: `self._client = WorkspaceClient(...)`
client_assign ==
    \E t \in 1..MaxConcurrent :
        LET self == s_got[t].client_instance
        IN /\ s_pc[t] = "make_WorkspaceClient"
           /\ s_made' = [s_made EXCEPT !.WorkspaceClient = @ + 1]
           /\ s_client' = [s_client EXCEPT ![self] = s_made.WorkspaceClient + 1]
           /\ s_writes' = s_writes \cup {<<"_client", self, t>>}
           /\ s_pc' = [s_pc EXCEPT ![t] = "return_client"]
           /\ UNCHANGED <<s_validator, s_client_instance, s_got>>
           /\ UNCHANGED <<gvars, vvars, fvars>>

\* DatabricksClient.client: `return self._client`
client_return ==
    \E t \in 1..MaxConcurrent :
        /\ s_pc[t] = "return_client"
        /\ s_got' = [s_got EXCEPT
                        ![t].client = s_client[s_got[t].client_instance]]
        /\ s_pc' = [s_pc EXCEPT ![t] = "done"]
        /\ UNCHANGED <<s_validator, s_client_instance, s_client, s_made,
                       s_writes>>
        /\ UNCHANGED <<gvars, vvars, fvars>>

AccessorsNext ==
    \/ get_sql_validator_test
    \/ get_sql_validator_assign
    \/ get_sql_validator_return
    \/ get_databricks_client_test
    \/ get_databricks_client_assign
    \/ get_databricks_client_return
    \/ client_test
    \/ client_assign
    \/ client_return

AccessorsSpec == AccessorsInit /\ [][AccessorsNext]_vars

(***************************************************************************)
(* Properties                                                               *)
(***************************************************************************)
\* the mutating keywords of the blocklist
MutatingKeywords ==
    {"DROP", "DELETE", "TRUNCATE", "ALTER", "CREATE", "INSERT", "UPDATE",
     "MERGE", "GRANT", "REVOKE", "EXECUTE", "EXEC"}

\* positions of text q at which a mutating keyword stands as a word of its
\* own, in any letter case
KeywordPositions(q) ==
    {i \in 1..Len(q) :
        /\ Upper(q[i]) \in MutatingKeywords
        /\ \A j \in {i - 1, i + 1} \cap (1..Len(q)) : ~IsWord(q[j])}

ContainedKeywords(q) == {Upper(q[i]) : i \in KeywordPositions(q)}

LeftmostKeyword(q) ==
    Upper(q[CHOOSE i \in KeywordPositions(q) :
                \A j \in KeywordPositions(q) : i <= j])

NonBlank(q) == \E i \in 1..Len(q) : ~IsSpace(q[i])

MatchesInjection(q) ==
    \E n \in 1..Len(INJECTION_PATTERNS) : PatternSearch(INJECTION_PATTERNS[n], q)

\* the first token that is not whitespace, upper-cased, is an allowed start
StartsAllowed(q) ==
    /\ NonBlank(q)
    /\ Upper(q[CHOOSE i \in 1..Len(q) :
                  /\ ~IsSpace(q[i])
                  /\ \A j \in 1..(i - 1) : IsSpace(q[j])])
          \in {"SELECT", "WITH", "SHOW", "DESCRIBE", "DESC"}

NonEmptyMessage(m) == m.some /\ \E i \in 1..Len(m.v) : m.v[i] # ""

ValidatedQuery == v_done /\ v_op = "validate_query"

\* C1 (as claimed): every statement passed to execute_statement was accepted
\* by validate_query earlier in the same invocation.
C1_EveryStatementValidated ==
    \A j \in 1..Len(events) :
        events[j].ev = "execute_statement" =>
            \E i \in 1..(j - 1) :
                /\ events[i].ev = "validate_query"
                /\ events[i].text = events[j].text
                /\ events[i].ok

\* C2 (as claimed): no statement submitted to the remote execution primitive
\* contains a mutating keyword as a standalone word.
C2_NoMutatingKeywordSubmitted ==
    request.sent => KeywordPositions(request.statement) = {}

\* C3: in query_f1_data and chart_custom a rejected query makes the
\* invocation return {success: false, error: the validator's reason} with no
\* get_databricks_client call and no remote call, and a remote call is
\* preceded by an accepting validation of the same text.
C3_RejectionNeverReachesRemote ==
    tool \in {"query_f1_data", "chart_custom"} =>
        /\ (\E i \in 1..Len(events) :
                events[i].ev = "validate_query" /\ ~events[i].ok)
           => /\ pc = "returned"
              /\ response = [success |-> FALSE,
                             error |-> validate_query(args.query).error_message.v]
              /\ response.error # <<>>
              /\ ~request.sent
              /\ \A j \in 1..Len(events) :
                    events[j].ev \notin {"get_databricks_client",
                                         "execute_statement"}
        /\ \A j \in 1..Len(events) :
              events[j].ev = "execute_statement" =>
                  \E i \in 1..(j - 1) :
                      /\ events[i].ev = "validate_query"
                      /\ events[i].text = events[j].text
                      /\ events[i].text = request.statement
                      /\ events[i].ok

C3_Witness ==
    /\ pc = "returned"
    /\ tool = "chart_custom"
    /\ args.query = <<"UPDATE", " ", "x">>
    /\ response.success = FALSE
    /\ "UPDATE" \in Range(response.error)

\* C4 (as claimed): for every blocked keyword K a query contains as a
\* standalone word, the query is rejected and the reason names K.
C4_EveryContainedKeywordNamed ==
    ValidatedQuery =>
        \A K \in ContainedKeywords(v_query) :
            /\ ~v_result.is_valid
            /\ v_result.error_message.some
            /\ K \in Range(v_result.error_message.v)

\* C4 (amended): a query that contains a blocked keyword as a standalone
\* word in any letter case is rejected and the reason names, in upper case,
\* the leftmost such keyword of the query.
C4_LeftmostKeywordNamed ==
    (ValidatedQuery /\ ContainedKeywords(v_query) # {}) =>
        /\ ~v_result.is_valid
        /\ v_result.error_message =
              Some(<<"Query contains blocked keyword: ",
                     LeftmostKeyword(v_query), ". ",
                     "Only SELECT queries are allowed.">>)

C4_Witness ==
    /\ ValidatedQuery
    /\ v_query = <<"SELECT", " ", "drop">>
    /\ ~v_result.is_valid
    /\ "DROP" \in Range(v_result.error_message.v)

C6_FirstFailingCheckReason ==
    ValidatedQuery =>
        /\ ~NonBlank(v_query) =>
              v_result = [is_valid |-> FALSE,
                          error_message |-> Some(<<"Query cannot be empty.">>)]
        /\ (NonBlank(v_query) /\ ContainedKeywords(v_query) # {}) =>
              /\ ~v_result.is_valid
              /\ v_result.error_message.v[1] = "Query contains blocked keyword: "
        /\ (/\ NonBlank(v_query)
            /\ ContainedKeywords(v_query) = {}
            /\ MatchesInjection(v_query)) =>
              v_result.error_message =
                  Some(<<"Query contains potentially dangerous pattern.">>)
        /\ (/\ NonBlank(v_query)
            /\ ContainedKeywords(v_query) = {}
            /\ ~MatchesInjection(v_query)
            /\ ~StartsAllowed(v_query)) =>
              v_result.error_message =
                  Some(<<"Query must start with SELECT, WITH, SHOW, or DESCRIBE. ",
                         "Only read operations are allowed.">>)

C6_Witness ==
    /\ ValidatedQuery
    /\ v_query = <<"UPDATE", " ", "x">>
    /\ v_result.error_message.v[2] = "UPDATE"

\* C7: a query that matches an injection pattern and contains no blocked
\* keyword is rejected with the fixed reason "Query contains potentially
\* dangerous pattern.", which holds no part of the input.
C7_InjectionFixedReason ==
    (/\ ValidatedQuery
     /\ MatchesInjection(v_query)
     /\ ContainedKeywords(v_query) = {}) =>
        /\ ~v_result.is_valid
        /\ v_result.error_message =
              Some(<<"Query contains potentially dangerous pattern.">>)
        /\ Range(v_result.error_message.v) \cap Range(v_query) = {}

C7_Witness ==
    /\ ValidatedQuery
    /\ v_query = <<"SELECT", " ",
                   "'", " ", "OR", " ", "'", "1", "'", "=", "'", "1">>
    /\ ~v_result.is_valid

\* C8: a ValidationResult of validate_query or validate_table_name has a
\* non-empty error_message if and only if is_valid is false.
C8_MessageIffInvalid ==
    v_op \in {"validate_query", "validate_table_name"} /\ v_done =>
        (NonEmptyMessage(v_result.error_message) <=> ~v_result.is_valid)

C8_Witness ==
    /\ v_done
    /\ v_op = "validate_table_name"
    /\ v_table = <<"1", ".", "a">>
    /\ v_catalogs = << <<"a">> >>
    /\ ~v_result.is_valid
    /\ NonEmptyMessage(v_result.error_message)

\* clamp(t, 5, 50)
Clamp(t) == IF t <= 5 THEN 5 ELSE IF t >= 50 THEN 50 ELSE t

\* C9: the wait submitted by execute_query is clamp(query_timeout_seconds,
\* 5, 50), in particular 4 -> 5, 5 -> 5, 50 -> 50, 51 -> 50.
C9_WaitIsClamped ==
    request.sent =>
        /\ request.wait_timeout =
              ToString(Clamp(settings.query_timeout_seconds)) \o "s"
        /\ settings.query_timeout_seconds \in {4, 5} =>
              request.wait_timeout = "5s"
        /\ settings.query_timeout_seconds \in {50, 51} =>
              request.wait_timeout = "50s"
        /\ settings.query_timeout_seconds \in {-3, 0} =>
              request.wait_timeout = "5s"

C9_Witness ==
    /\ request.sent
    /\ settings.query_timeout_seconds = 4
    /\ request.wait_timeout = "5s"

\* C10 (as claimed): execute_query returns a statement's result only once
\* the remote statement has reached its success or failure state.
C10_ReturnsOnlyAfterTerminalState ==
    (pc = "returned" /\ request.sent /\ remote.state # "UNKNOWN") =>
        remote.state \in Terminal

\* how many calls named `name` the trace `evs` holds
NumberOf(evs, name) == Len(SelectSeq(evs, LAMBDA x : x.ev = name))

\* the trace holds a call named `name` that raised
Failed(evs, name) ==
    \E i \in 1..Len(evs) : evs[i].ev = name /\ ~evs[i].ok

\* C11: every invocation of execute_query whose workspace client can be
\* constructed makes exactly one execute_statement call, an invocation
\* without execute_query or without a client makes none, and no later step
\* of the invocation (a failure, a state that is not terminal, the return)
\* makes another one; each invocation submits again whatever was submitted
\* before it.
C11_OneSubmissionPerExecuteQuery ==
    [][ IF pc = "idle" /\ pc' # "idle"
        THEN /\ NumberOf(events', "execute_query") <= 1
             /\ NumberOf(events', "execute_statement") =
                   (IF /\ NumberOf(events', "execute_query") = 1
                       /\ ~Failed(events', "WorkspaceClient")
                    THEN 1 ELSE 0)
             /\ submissions' = submissions + NumberOf(events', "execute_statement")
        ELSE /\ submissions' = submissions
             /\ pc' # "idle" =>
                   NumberOf(events', "execute_statement") =
                   NumberOf(events, "execute_statement") ]_vars

\* the second invocation of the process submitted again, its statement
\* call raised, and the process has made two submissions in all
C11_Witness ==
    /\ pc = "returned"
    /\ calls = 2
    /\ submissions = 2
    /\ Failed(events, "except")
    /\ NumberOf(events, "execute_statement") = 1

\* C12: every result of execute_query with success true has no error and
\* no state and row_count = len(rows); every result with success false has
\* no columns and no rows and an error that is not null.
C12_QueryResultInvariant ==
    pc = "returned" /\ "success" \in DOMAIN result =>
        IF result.success
        THEN /\ "error" \notin DOMAIN result
             /\ "state" \notin DOMAIN result
             /\ result.row_count = Len(result.rows)
        ELSE /\ Get(result, "columns", <<>>) = <<>>
             /\ Get(result, "rows", <<>>) = <<>>
             /\ "error" \in DOMAIN result
             /\ result.error # NoMessage

\* C13: a fault raised while the workspace client is constructed or while
\* the statement is executed never leaves execute_query: the invocation
\* returns, and execute_query's result is success false with the fault's
\* description as error.
C13_FaultsAreReturned ==
    \A i \in 1..Len(events) :
        events[i].ev \in {"WorkspaceClient", "except"} /\ ~events[i].ok =>
            /\ pc = "returned"
            /\ result = [success |-> FALSE, error |-> events[i].text]

\* constructing the workspace client raised inside execute_query
C13_Witness ==
    /\ pc = "returned"
    /\ NumberOf(events, "execute_query") = 1
    /\ Failed(events, "WorkspaceClient")

\* C14: every tool invocation returns a response with a success boolean and
\* either an error or the result fields.
C14_StructuredResponse ==
    pc = "returned" =>
        /\ "success" \in DOMAIN response
        /\ response.success \in BOOLEAN
        /\ \/ "error" \in DOMAIN response
           \/ DOMAIN response \ {"success", "error"} # {}

\* C15: the row limit of every submitted request is positive; it is the
\* max_rows the caller gave, and max_result_rows when the caller gave none.
C15_RowLimitPositiveAndResolved ==
    request.sent =>
        /\ request.row_limit > 0
        /\ request.row_limit =
              (IF "max_rows" \in DOMAIN args /\ args.max_rows.some
               THEN args.max_rows.v ELSE settings.max_result_rows)

\* C16: on state SUCCEEDED the result's columns are the schema's column
\* names in order (none without a schema), there is one row per payload row
\* in order, each row's keys are exactly the column names, and each row maps
\* the j-th column name to the j-th value of its payload row.
C16_RowsZipColumns ==
    pc = "returned" /\ remote.state = "SUCCEEDED" =>
        LET names == IF remote.manifest.some THEN remote.manifest.v ELSE <<>>
            data == IF remote.data_array.some THEN remote.data_array.v ELSE <<>>
        IN /\ result.success
           /\ result.columns = names
           /\ Len(result.rows) = Len(data)
           /\ \A i \in 1..Len(data) :
                 /\ DOMAIN result.rows[i] = Range(names)
                 /\ \A j \in 1..Len(names) :
                       /\ j <= Len(data[i])
                       /\ result.rows[i][names[j]] = data[i][j]

\* C17: on every state other than SUCCEEDED that execute_statement returns,
\* the result is success false, state the stringified state, and error the
\* remote error message, or "Query did not succeed" when there is none.
C17_NonSucceededResult ==
    pc = "returned" /\ remote.state \in {"FAILED", "CANCELED", "CLOSED",
                                         "PENDING", "RUNNING"} =>
        result = [success |-> FALSE,
                  state |-> "StatementState." \o remote.state,
                  error |-> IF remote.error.some /\ remote.error.v # NoMessage
                            THEN remote.error.v
                            ELSE <<"Query did not succeed">>]

\* the rendering rule of a cell value: absent -> NULL, float -> two
\* decimals, list or mapping -> JSON, anything else -> str()
RenderRule(value) ==
    CASE value.type = "NoneType" -> "NULL"
      [] value.type = "float" -> Fixed2(value.n)
      [] value.type \in {"list", "dict"} -> JsonDumps(value)
      [] OTHER -> Str(value)

\* the text of the cell of `row` under `column`
Cell(row, column) ==
    RenderRule(IF column \in DOMAIN row THEN row[column] ELSE PyNone)

\* the numbered text line of the i-th row
RowLine(i, row, columns) ==
    <<"[", ToString(i), "] ">>
    \o Join(<<" | ">>, [j \in 1..Len(columns) |->
                           <<columns[j], ": ", Cell(row, columns[j])>>])

\* C18: format_query_result answers by the first case that applies:
\* failure -> "Query failed: {error}"; no columns -> "Query returned no
\* columns."; no rows -> "Query returned no rows."; otherwise the header
\* with row count and column list, then min(len(rows), max_display_rows)
\* numbered row lines in row order, then one suffix line with
\* row_count - max_display_rows exactly when rows were left out, so that
\* shown plus omitted rows are row_count.
C18_TextCases ==
    f_text # <<>> =>
        IF ~f_result.success
        THEN f_text = << <<"Query failed: ">> \o f_result.error >>
        ELSE IF f_result.columns = <<>>
        THEN f_text = << <<"Query returned no columns.">> >>
        ELSE IF f_result.rows = <<>>
        THEN f_text = << <<"Query returned no rows.">> >>
        ELSE LET columns == f_result.columns
                 rows == f_result.rows
                 row_count == IF "row_count" \in DOMAIN f_result
                              THEN f_result.row_count ELSE Len(rows)
                 shown == Min(Len(rows), f_max_display_rows)
                 omitted == row_count - f_max_display_rows
                 suffix == SubSeq(f_text, 5 + shown, Len(f_text))
             IN /\ Len(f_text) >= 4 + shown
                /\ f_text[1] = <<"Query returned ", ToString(row_count), " row(s)">>
                /\ f_text[2] = <<>>
                /\ f_text[3] = <<"Columns: ">>
                               \o Join(<<", ">>, [j \in 1..Len(columns) |->
                                                     <<columns[j]>>])
                /\ f_text[4] = <<>>
                /\ \A i \in 1..shown : f_text[4 + i] = RowLine(i, rows[i], columns)
                /\ IF Len(rows) > f_max_display_rows
                   THEN /\ suffix = << <<"... and ", ToString(omitted),
                                         " more rows">> >>
                        /\ shown + omitted = row_count
                   ELSE suffix = <<>>

\* more rows than max_display_rows: some are shown, the others counted
C18_Witness ==
    /\ f_text # <<>>
    /\ f_result.success
    /\ f_result.columns # <<>>
    /\ f_max_display_rows >= 1
    /\ Len(f_result.rows) > f_max_display_rows

\* the line is a pipe-delimited row of exactly these cells
IsRowOf(line, cells) ==
    /\ Len(line) = 2 * Len(cells) + 1
    /\ line[1] = "| "
    /\ line[Len(line)] = " |"
    /\ \A j \in 1..Len(cells) :
          /\ line[2 * j] = cells[j]
          /\ j < Len(cells) => line[2 * j + 1] = " | "

\* C19: format_as_markdown_table on a success with columns and rows gives a
\* header row with one cell per column, a separator row with as many
\* cells, min(len(rows), max_rows) data rows with one cell per column in
\* column order, and a note of len(rows) - max_rows omitted rows exactly
\* when len(rows) > max_rows; a failure gives one bolded error line, a
\* success without columns or rows the no-data placeholder.
C19_MarkdownTable ==
    f_markdown # <<>> =>
        IF ~f_result.success
        THEN f_markdown = << <<"**Error:** ">> \o f_result.error >>
        ELSE IF f_result.columns = <<>> \/ f_result.rows = <<>>
        THEN f_markdown = << <<"*No data to display*">> >>
        ELSE LET columns == f_result.columns
                 rows == f_result.rows
                 shown == Min(Len(rows), f_max_rows)
                 note == SubSeq(f_markdown, 3 + shown, Len(f_markdown))
             IN /\ Len(f_markdown) >= 2 + shown
                /\ IsRowOf(f_markdown[1], columns)
                /\ IsRowOf(f_markdown[2], [j \in 1..Len(columns) |-> "---"])
                /\ \A i \in 1..shown :
                      IsRowOf(f_markdown[2 + i],
                              [j \in 1..Len(columns) |-> Cell(rows[i], columns[j])])
                /\ IF Len(rows) > f_max_rows
                   THEN note = << <<"\n", "*... ",
                                    ToString(Len(rows) - f_max_rows),
                                    " more rows*">> >>
                   ELSE note = <<>>

\* a table of two columns cut at max_rows
C19_Witness ==
    /\ f_markdown # <<>>
    /\ f_result.success
    /\ Len(f_result.columns) = 2
    /\ f_max_rows >= 1
    /\ Len(f_result.rows) > f_max_rows

\* the cells both renderers show of the result they were given
SharedCells ==
    IF f_text # <<>> /\ f_markdown # <<>> /\ f_result.success
       /\ f_result.columns # <<>>
    THEN { <<i, j>> : i \in 1..Min(Len(f_result.rows),
                                   Min(f_max_display_rows, f_max_rows)),
                      j \in 1..Len(f_result.columns) }
    ELSE {}

\* C20: every cell that both renderers show has the same text in the text
\* rendering and in the markdown table, and that text is the one the
\* rendering rule gives for the cell's value.
C20_SameCellText ==
    \A c \in SharedCells :
        LET row == f_result.rows[c[1]]
            column == f_result.columns[c[2]]
            in_text == f_text[4 + c[1]][4 * c[2] + 2]
            in_markdown == f_markdown[2 + c[1]][2 * c[2]]
        IN /\ in_text = in_markdown
           /\ in_text = Cell(row, column)

\* both renderers show a float cell and a cell of a column the row lacks
C20_Witness ==
    /\ \E c \in SharedCells :
          LET row == f_result.rows[c[1]]
              column == f_result.columns[c[2]]
          IN column \in DOMAIN row /\ row[column].type = "float"
    /\ \E c \in SharedCells :
          f_result.columns[c[2]] \notin DOMAIN f_result.rows[c[1]]

OnlyNumericChars(chars) ==
    \A i \in 1..Len(chars) :
        chars[i] \in {"0", "1", "2", "3", "4", "5", "6", "7", "8", "9", ".", "-"}

HasDigit(chars) ==
    \E i \in 1..Len(chars) :
        chars[i] \in {"0", "1", "2", "3", "4", "5", "6", "7", "8", "9"}

\* the value is a number (a bool is an int)
IsNumber(val) == val.type \in {"int", "bool", "float"}

\* the value of the first row under the column, None when it has none
FirstValue(col) ==
    IF col \in DOMAIN f_result.rows[1] THEN f_result.rows[1][col] ELSE PyNone

\* what extract_numeric_columns returns when `numeric` tells the numeric
\* first-row values
ExtractedBy(numeric(_)) ==
    IF ~f_result.success \/ f_result.rows = <<>>
    THEN f_numeric.numeric_cols = <<>> /\ f_numeric.rows = <<>>
    ELSE /\ f_numeric.rows = f_result.rows
         /\ f_numeric.numeric_cols =
               SelectSeq(f_result.columns, LAMBDA col : numeric(FirstValue(col)))

\* C22 as stated: ([], []) for a failed result or one without rows;
\* otherwise all rows unchanged and exactly the columns, in order, whose
\* first-row value is a number or a string of only digits, '.' and '-'.
C22_NumericColumnsAsStated ==
    f_numeric.called =>
        ExtractedBy(LAMBDA val :
                       \/ IsNumber(val)
                       \/ val.type = "str" /\ OnlyNumericChars(val.items))

\* C22 amended: as stated, but a string counts as numeric only if it also
\* holds at least one digit.
C22_NumericColumns ==
    f_numeric.called =>
        ExtractedBy(LAMBDA val :
                       \/ IsNumber(val)
                       \/ /\ val.type = "str"
                          /\ OnlyNumericChars(val.items)
                          /\ HasDigit(val.items))

\* two rows: the first holds "-2" under a column, the second a different
\* value that is not numeric, and the column is reported
C22_Witness ==
    /\ f_numeric.called
    /\ Len(f_result.rows) = 2
    /\ f_result.rows[1].a = PyChars(<<"-", "2">>)
    /\ f_result.rows[2].a = PyChars(<<"x">>)
    /\ f_numeric.numeric_cols = <<"a", "b">>

\* the characters of NameChars that are in [A-Za-z0-9_.]
AllowedNameChars == {"a", "1", "_", "."}

\* s with the characters outside AllowedNameChars removed, order kept
RECURSIVE Kept(_)
Kept(s) ==
    IF s = <<>> THEN <<>>
    ELSE IF Head(s) \in AllowedNameChars THEN <<Head(s)>> \o Kept(Tail(s))
    ELSE Kept(Tail(s))

\* C23: sanitize_identifier returns its input with exactly the characters
\* outside [A-Za-z0-9_.] removed, order kept; it returns a string of allowed
\* characters unchanged; applied to its own result it returns that result.
C23_SanitizeIdentifier ==
    v_op = "sanitize_identifier" /\ v_done =>
        /\ v_text = Kept(v_table)
        /\ (Range(v_table) \subseteq AllowedNameChars => v_text = v_table)
        /\ sanitize_identifier(v_text) = v_text

\* "a;1" became "a1"
C23_Witness ==
    /\ v_op = "sanitize_identifier"
    /\ v_done
    /\ v_table = <<"a", ";", "1">>
    /\ v_text = <<"a", "1">>

\* the component before the first '.'
RECURSIVE LeadingComponent(_)
LeadingComponent(s) ==
    IF s = <<>> \/ Head(s) = "." THEN <<>>
    ELSE <<Head(s)>> \o LeadingComponent(Tail(s))

\* C24: validate_table_name accepts a name only if it is non-empty and every
\* one of its characters, first to last, is in [A-Za-z0-9_.] (a trailing line
\* break is not tolerated), and, when an allow-list of catalogs is set, only
\* if the leading component of a dotted name is in that list.
C24_TableNameAccepted ==
    v_op = "validate_table_name" /\ v_done /\ v_result.is_valid =>
        /\ v_table # <<>>
        /\ Range(v_table) \subseteq AllowedNameChars
        /\ (v_catalogs # <<>> /\ "." \in Range(v_table)
               => LeadingComponent(v_table) \in Range(v_catalogs))

\* the invocations that wrote the variable (of the instance)
WritersOf(variable, instance) ==
    { t \in 1..MaxConcurrent : <<variable, instance, t>> \in s_writes }

\* C25: under any interleaving of concurrent invocations each accessor
\* constructs at most one instance, every caller receives that same
\* instance, and no shared variable is written by more than one invocation.
C25_OneInstanceEach ==
    /\ s_made.SQLValidator <= 1
    /\ s_made.DatabricksClient <= 1
    /\ s_made.WorkspaceClient <= 1
    /\ \A t, u \in 1..MaxConcurrent :
          s_pc[t] = "done" /\ s_pc[u] = "done" => s_got[t] = s_got[u]
    /\ \A variable \in {"_validator", "_client_instance", "_client"} :
          \A instance \in 0..MaxConcurrent :
             Cardinality(WritersOf(variable, instance)) <= 1

\* the tools whose statement is built from optional filters
CannedTools ==
    { "get_driver_season_stats", "get_constructor_season_stats",
      "get_race_results", "get_pit_stop_data" }

\* C26: in the statement a canned builder submits, for every combination of
\* present and absent filters, a condition introduced by AND never appears
\* unless a WHERE precedes it; with no filters get_pit_stop_data's
\* `pit_stop_count > 0` is introduced by WHERE.
C26_ConditionsUnderWhere ==
    tool \in CannedTools /\ request # NoRequest =>
        \A i \in 1..Len(request.statement) :
            request.statement[i] = "AND" =>
                \E j \in 1..(i - 1) : request.statement[j] = "WHERE"

\* the tools that put caller-supplied names into a statement template
TemplateTools ==
    CannedTools \cup {"describe_table", "get_table_sample",
                      "chart_correlation_heatmap"}

\* the tokens of OptTexts, ToolTableNames and OptFeatures that no statement
\* template holds
CallerTokens == {"x", "drop", "DROP", "TABLE", ";", "a", "b", "1"}

\* the tokens that open or close a single-quoted literal
QuoteTokens == {"'", "('%", "%')"}

\* position i of the statement lies inside a single-quoted literal: an odd
\* number of quotes precedes it (a doubled quote closes and reopens)
InLiteral(statement, i) ==
    Cardinality({ j \in 1..(i - 1) : statement[j] \in QuoteTokens }) % 2 = 1

\* C27: every caller-supplied name reaches the submitted statement only
\* inside a single-quoted literal in which every single quote of the name is
\* doubled; no caller text stands in the statement outside a literal.
C27_CallerTextInLiterals ==
    tool \in TemplateTools /\ request # NoRequest =>
        \A i \in 1..Len(request.statement) :
            request.statement[i] \in CallerTokens =>
                InLiteral(request.statement, i)

\* the first piece of the first line of a rendering
FirstPiece(lines) == lines[1][1]

\* C28: the response of query_f1_data holds `formatted` exactly when the
\* execution succeeded and the format is markdown or text; markdown gives
\* the markdown table and text the text rendering; for json, for any other
\* format and for every failed execution the response is the execute_query
\* result itself.
C28_FormattedOnlyOnSuccess ==
    pc = "returned" /\ tool = "query_f1_data" /\ result # NoResult =>
        LET formats == result.success /\ args.format \in {"markdown", "text"}
        IN /\ "formatted" \in DOMAIN response <=> formats
           /\ formats =>
                 /\ [f \in DOMAIN result |-> response[f]] = result
                 /\ DOMAIN response = DOMAIN result \cup {"formatted"}
                 /\ args.format = "markdown" =>
                       FirstPiece(response.formatted)
                           \in {"| ", "*No data to display*"}
                 /\ args.format = "text" =>
                       FirstPiece(response.formatted)
                           \in {"Query returned ", "Query returned no columns.",
                                "Query returned no rows."}
           /\ ~formats => response = result

\* a markdown response over a result with rows
C28_Witness ==
    /\ pc = "returned"
    /\ tool = "query_f1_data"
    /\ args.format = "markdown"
    /\ result # NoResult
    /\ result.success
    /\ result.rows # <<>>
    /\ "formatted" \in DOMAIN response
    /\ FirstPiece(response.formatted) = "| "

\* a failed execution asked as text: the response is the result
C28_WitnessFailure ==
    /\ pc = "returned"
    /\ tool = "query_f1_data"
    /\ args.format = "text"
    /\ result # NoResult
    /\ ~result.success
    /\ response = result

\* the layer whose filter `table_name LIKE 'f1_<layer>%'` the name matches
LayerOfPrefix(table_name) ==
    CASE table_name = "f1_gold_t" -> "gold"
      [] table_name = "f1_bronze_silver_t" -> "bronze"
      [] table_name = "f1_gold_silverstone_t" -> "gold"
      [] OTHER -> "none"

\* the layers the caller asked for
LayersAsked ==
    (IF args.include_bronze THEN {"bronze"} ELSE {})
    \cup (IF args.include_silver THEN {"silver"} ELSE {})
    \cup (IF args.include_gold THEN {"gold"} ELSE {})

\* every row the warehouse returned matches one of the submitted filters
RowsMatchFilters ==
    \A i \in 1..Len(result.rows) :
        /\ "table_name" \in DOMAIN result.rows[i]
        /\ LayerOfPrefix(result.rows[i].table_name) \in LayersAsked

\* C29: list_f1_tables with all three flags false returns
\* {success: false, error} without a remote submission; otherwise, on
\* success, every row is in at most one of the bronze, silver and gold
\* buckets and a bucket is non-empty only if its layer was asked for.
C29_ListTables ==
    /\ pc = "returned"
    /\ tool = "list_f1_tables"
    /\ "raised" \notin DOMAIN response
    => IF LayersAsked = {}
       THEN /\ DOMAIN response = {"success", "error"}
            /\ response.success = FALSE
            /\ NumberOf(events, "execute_statement") = 0
       ELSE response.success /\ RowsMatchFilters =>
               LET buckets == response.tables_by_layer
               IN /\ \A i \in 1..Len(result.rows) :
                        Cardinality({ layer \in DOMAIN buckets :
                                        \E k \in 1..Len(buckets[layer]) :
                                           buckets[layer][k] = result.rows[i] })
                           <= 1
                  /\ \A layer \in DOMAIN buckets :
                        buckets[layer] # <<>> => layer \in LayersAsked

\* str.lower() on the pieces of the placeholder messages
Lower(piece) ==
    CASE piece = "PLACEHOLDER" -> "placeholder"
      [] piece = ": This is a " -> ": this is a "
      [] piece = "Integration of the model is on the way" ->
            "integration of the model is on the way"
      [] piece = "Integrate your trained ML model here for accurate predictions." ->
            "integrate your trained ml model here for accurate predictions."
      [] OTHER -> piece

\* the invocation called the service's predict_* method
CalledService ==
    NumberOf(events, "predict_optimal_pit_count")
    + NumberOf(events, "predict_pit_stop_duration") > 0

\* C30: predict_optimal_pit_count gives 1 below 40 laps, 2 from 40 to 59
\* and 3 from 60; every placeholder prediction has confidence 0.0, a message
\* that contains "placeholder" in lower case and the result fields of its
\* type set; predict_pit_stops returns success false without calling the
\* service for an unknown prediction_type and for a duration request with
\* no constructor_id.
C30_PlaceholderPredictions ==
    pc = "returned" /\ tool = "predict_pit_stops" =>
        LET known == args.prediction_type \in {"optimal_pit_count",
                                               "pit_stop_duration"}
            no_constructor == /\ args.prediction_type = "pit_stop_duration"
                              /\ ~args.constructor_id.some
        IN /\ ~known \/ no_constructor =>
                 response.success = FALSE /\ ~CalledService
           /\ response.success =>
                 /\ response.confidence = PyFloat(0)
                 /\ \E i \in 1..Len(response.message.items) :
                       Lower(response.message.items[i]) = "placeholder"
                 /\ args.prediction_type = "optimal_pit_count" =>
                       response.optimal_pit_count =
                           PyInt(IF args.race_laps < 40 THEN 1
                                 ELSE IF args.race_laps < 60 THEN 2 ELSE 3)
                 /\ args.prediction_type = "pit_stop_duration" =>
                       /\ response.predicted_avg_pit_ms # PyNone
                       /\ response.predicted_total_pit_ms # PyNone
           /\ known /\ args.prediction_type = "optimal_pit_count" =>
                 response.success

\* a 40-lap race: two stops
C30_Witness ==
    /\ pc = "returned"
    /\ tool = "predict_pit_stops"
    /\ args.prediction_type = "optimal_pit_count"
    /\ args.race_laps = 40
    /\ response.success
    /\ response.optimal_pit_count = PyInt(2)
    /\ CalledService
====
